---------------------------- MODULE Spec2Model ----------------------------
(***************************************************************************)
(* A model of the Messages API gateway of this repository, in its two      *)
(* variants:                                                               *)
(*   "express"  src/server.ts          (Express, streaming-input engine)   *)
(*   "bun"      src/unnamed/part_000   (Hono/Bun, plain-text prompt)       *)
(*                                                                         *)
(* Strings are sequences of tokens: a token is one character of client     *)
(* text or one fixed literal of a template string of the code.  String     *)
(* concatenation is \o, Array.join is Join, slice(0, n) is Take.           *)
(***************************************************************************)
EXTENDS Integers, Sequences, FiniteSets, TLC

VARIABLES
    variant,        \* which of the two server files is the running process
    flatIn,         \* the turn list handed to the Flattener
    flatOut,        \* what the Flattener produced for flatIn
    flatDone,       \* the Flattener has run on flatIn
    requestCount,   \* let requestCount  (process-wide)
    successCount,   \* let successCount  (process-wide)
    errorCount,     \* let errorCount    (process-wide)
    phase,          \* position of the request handler: idle, the await it
                    \* is suspended at (parsing, starting, running,
                    \* returning, stopping, closing), done
    body,           \* the request body being handled
    engineCalls,    \* number of query() calls made for the current request
    engineInput,    \* the prompt handed to query() for the current request
    engineOptions,  \* the options handed to query() for the current request
    engineScript,   \* the stream the engine is set to deliver (AggregateSpec)
    engineLog,      \* the SDK messages the for-await loop has consumed so far
    engineOutcome,  \* how the engine's stream finished: none, ended, threw
    wire,           \* the SSE records written to the client, in order
    resEnded,       \* number of times the streamed response was ended
    response,       \* the JSON response sent (status 0: none sent)
    responsesSent,  \* number of JSON responses sent for the current request
    clientClosed,   \* the client closed its connection while streaming
    aborted,        \* abortController.abort() was called for this request
    agg,            \* the non-streaming loop's accumulators
    base,           \* successCount and errorCount when the request arrived
    requests        \* the handlers of concurrent requests (ConcurrentSpec)

vars == << variant, flatIn, flatOut, flatDone, requestCount, successCount,
           errorCount, phase, body, engineCalls, engineInput, engineOptions,
           engineScript, engineLog,
           engineOutcome, wire, resEnded, response, responsesSent,
           clientClosed, aborted, agg, base, requests >>

flatVars == << flatIn, flatOut, flatDone >>

handlerVars == << requestCount, successCount, errorCount, phase, body,
                  engineCalls, engineInput, engineOptions, engineScript,
                  engineLog, engineOutcome, wire,
                  resEnded, response, responsesSent, clientClosed, aborted,
                  agg, base, requests >>

\* the state of the handler that serves one request at a time
oneRequestVars == << phase, body, engineCalls, engineInput, engineOptions,
                     engineScript, engineLog, engineOutcome, wire, resEnded,
                     response, responsesSent, clientClosed, aborted, agg,
                     base >>

-----------------------------------------------------------------------------
(* Bounds of the model *)

MaxHistory == 2      \* turns before the current turn
MaxBlocks == 2       \* content segments in a structured current turn
MaxEngineMsgs == 3   \* SDK messages the engine delivers for one request
MaxRequests == 2     \* requests handled by the process
MaxEscLen == 4       \* characters of a history text given to escapeXml
MaxToolBlocks == 2   \* content segments of a turn with tool results
MaxAggTurns == 2     \* assistant messages of one engine run
MaxPairTurns == 4    \* user and assistant turns of a plain-text history
MaxResumes == 1      \* SDK messages delivered to each of the concurrent requests

-----------------------------------------------------------------------------
(* Program constants *)

ToolResultPreview == 200   \* slice(0, 200) / substring(0, 200)
ToolInputPreview == 100    \* JSON.stringify(t.input).slice(0, 100)
ThinkingPreview == 100     \* block.thinking.substring(0, 100)

Variants == {"express", "bun"}

Undefined == "undefined"   \* an absent (undefined) property
NL == "\n"

-----------------------------------------------------------------------------
(* String helpers *)

Min(a, b) == IF a < b THEN a ELSE b

\* String.prototype.slice(0, n) / substring(0, n)
Take(s, n) == SubSeq(s, 1, Min(Len(s), n))

\* Array.prototype.join(sep) on an array of strings
RECURSIVE Join(_, _)
Join(parts, sep) ==
    IF Len(parts) = 0 THEN << >>
    ELSE IF Len(parts) = 1 THEN parts[1]
    ELSE parts[1] \o << sep >> \o Join(Tail(parts), sep)

\* JSON.stringify of a mapping; a member is [key, value], the value one
\* token that is its own serialization (a number)
JsonStringifyMember(m) == << "\"", m.key, "\"", ":", m.value >>

JsonStringifyObject(members) ==
    << "{" >> \o Join([i \in 1..Len(members) |-> JsonStringifyMember(members[i])], ",")
    \o << "}" >>

\* JSON.stringify of an array of mappings
JsonStringifyArray(items) ==
    << "[" >> \o Join([i \in 1..Len(items) |-> JsonStringifyObject(items[i])], ",")
    \o << "]" >>

IsSuffix(t, s) ==
    /\ Len(t) <= Len(s)
    /\ SubSeq(s, Len(s) - Len(t) + 1, Len(s)) = t

SeqsUpTo(S, n) == UNION { [1..k -> S] : k \in 0..n }

-----------------------------------------------------------------------------
(* Content segments and turns                                              *)
(* A turn is [role, isString, text, blocks]: content is the string `text`  *)
(* when isString, the segment array `blocks` otherwise.                    *)

TextBlock(t) == [type |-> "text", text |-> t]
ImageBlock(srcType, mediaType, data, url) ==
    [type |-> "image",
     source |-> [type |-> srcType, media_type |-> mediaType, data |-> data, url |-> url]]
ToolUseBlock(id, name, hasInput, members) ==
    [type |-> "tool_use", id |-> id, name |-> name,
     hasInput |-> hasInput, input |-> members]
ToolResultString(id, t) ==
    [type |-> "tool_result", tool_use_id |-> id, contentKind |-> "string",
     text |-> t, items |-> << >>]
ToolResultArray(id, items) ==
    [type |-> "tool_result", tool_use_id |-> id, contentKind |-> "array",
     text |-> << >>, items |-> items]
ThinkingBlock(t) == [type |-> "thinking", thinking |-> t]
UnknownBlock == [type |-> "document"]

\* a turn: its content is a string or an array of blocks; noContent marks a
\* turn that came without a `content` property
StringTurn(role, t) ==
    [role |-> role, isString |-> TRUE, text |-> t, blocks |-> << >>,
     noContent |-> FALSE]
BlocksTurn(role, bs) ==
    [role |-> role, isString |-> FALSE, text |-> << >>, blocks |-> bs,
     noContent |-> FALSE]
ContentlessTurn(role) ==
    [role |-> role, isString |-> FALSE, text |-> << >>, blocks |-> << >>,
     noContent |-> TRUE]

\* the outcome of a call that throws a TypeError: iterating or mapping the
\* absent content of a turn
ThrowsTypeError(message) == [throws |-> "TypeError", message |-> message]


-----------------------------------------------------------------------------
(* HistoryReplayConverter, src/server.ts *)

\* String.prototype.replace(/c/g, rep)
RECURSIVE ReplaceAll(_, _, _)
ReplaceAll(text, c, rep) ==
    IF Len(text) = 0 THEN << >>
    ELSE IF Len(text) = 1 THEN (IF text[1] = c THEN rep ELSE text)
    ELSE LET half == Len(text) \div 2
         IN ReplaceAll(SubSeq(text, 1, half), c, rep)
            \o ReplaceAll(SubSeq(text, half + 1, Len(text)), c, rep)

\* escapeXml with '&' replaced last instead of first
escapeXmlAmpLast(text) ==
    ReplaceAll(
      ReplaceAll(
        ReplaceAll(
          ReplaceAll(
            ReplaceAll(text, "<", << "&", "l", "t", ";" >>),
            ">", << "&", "g", "t", ";" >>),
          "\"", << "&", "q", "u", "o", "t", ";" >>),
        "'", << "&", "a", "p", "o", "s", ";" >>),
      "&", << "&", "a", "m", "p", ";" >>)

\* escapeXml without its last replacement
escapeXmlNoApos(text) ==
    ReplaceAll(
      ReplaceAll(
        ReplaceAll(
          ReplaceAll(text, "&", << "&", "a", "m", "p", ";" >>),
          "<", << "&", "l", "t", ";" >>),
        ">", << "&", "g", "t", ";" >>),
      "\"", << "&", "q", "u", "o", "t", ";" >>)

\* escapeXml: the five chained replacements, '&' first
escapeXml(text) ==
    ReplaceAll(
      ReplaceAll(
        ReplaceAll(
          ReplaceAll(
            ReplaceAll(text, "&", << "&", "a", "m", "p", ";" >>),
            "<", << "&", "l", "t", ";" >>),
          ">", << "&", "g", "t", ";" >>),
        "\"", << "&", "q", "u", "o", "t", ";" >>),
      "'", << "&", "a", "p", "o", "s", ";" >>)

\* one iteration of the switch in extractTextContent: what is pushed on parts
ExpressPartsOf(block) ==
    CASE block.type = "text" -> << block.text >>
      [] block.type = "tool_use" ->
            << << "[Used tool: ", block.name >>
               \o (IF block.hasInput
                   THEN << " with input: " >>
                        \o Take(JsonStringifyObject(block.input), ToolInputPreview)
                   ELSE << >>)
               \o << "]" >> >>
      [] block.type = "tool_result" ->
            IF block.contentKind = "string"
            THEN << << "[Tool result: " >> \o Take(block.text, ToolResultPreview)
                    \o << "...]" >> >>
            ELSE << << "[Tool result: ", ToString(Len(block.items)), " items]" >> >>
      [] block.type = "image" -> << << "[Image attached]" >> >>
      [] OTHER -> << >>

RECURSIVE ExpressParts(_)
ExpressParts(blocks) ==
    IF blocks = << >> THEN << >>
    ELSE ExpressPartsOf(Head(blocks)) \o ExpressParts(Tail(blocks))

\* (for (const block of msg.content) throws when there is no content)
expressExtractTextContent(msg) ==
    IF msg.noContent THEN ThrowsTypeError(<< "msg.content is not iterable" >>)
    ELSE IF msg.isString THEN msg.text
    ELSE Join(ExpressParts(msg.blocks), NL)

\* the body of the while loop of buildConversationHistory from index i on:
\* a user turn takes a directly following assistant turn with it
\* (every user and assistant turn is handed to extractTextContent, whose
\* TypeError on a turn without content leaves the loop)
RECURSIVE HistoryLines(_, _)
HistoryLines(messages, i) ==
    IF ~(i <= Len(messages)) THEN << >>
    ELSE IF \E j \in i..Len(messages) :
                messages[j].role # "system" /\ messages[j].noContent
    THEN ThrowsTypeError(<< "msg.content is not iterable" >>)
    ELSE LET msg == messages[i] IN
         IF msg.role = "user"
         THEN << << "<user>" >>, escapeXml(expressExtractTextContent(msg)),
                 << "</user>" >> >>
              \o (IF i + 1 <= Len(messages) /\ messages[i + 1].role = "assistant"
                  THEN << << "<assistant>" >>,
                          escapeXml(expressExtractTextContent(messages[i + 1])),
                          << "</assistant>" >> >>
                       \o HistoryLines(messages, i + 2)
                  ELSE HistoryLines(messages, i + 1))
         ELSE IF msg.role = "assistant"
         THEN << << "<assistant>" >>, escapeXml(expressExtractTextContent(msg)),
                 << "</assistant>" >> >>
              \o HistoryLines(messages, i + 1)
         ELSE HistoryLines(messages, i + 1)

\* a pair-lookahead loop that steps over the user turn alone after it has
\* taken the assistant turn with it
RECURSIVE HistoryLinesRevisit(_, _)
HistoryLinesRevisit(messages, i) ==
    IF ~(i <= Len(messages)) THEN << >>
    ELSE LET msg == messages[i] IN
         IF msg.role = "user"
         THEN << << "<user>" >>, escapeXml(expressExtractTextContent(msg)),
                 << "</user>" >> >>
              \o (IF i + 1 <= Len(messages) /\ messages[i + 1].role = "assistant"
                  THEN << << "<assistant>" >>,
                          escapeXml(expressExtractTextContent(messages[i + 1])),
                          << "</assistant>" >> >>
                  ELSE << >>)
              \o HistoryLinesRevisit(messages, i + 1)
         ELSE IF msg.role = "assistant"
         THEN << << "<assistant>" >>, escapeXml(expressExtractTextContent(msg)),
                 << "</assistant>" >> >>
              \o HistoryLinesRevisit(messages, i + 1)
         ELSE HistoryLinesRevisit(messages, i + 1)

buildConversationHistoryRevisit(messages) ==
    Join(<< << "<conversation_history>" >>,
            << "This is the previous conversation for context. You should be aware of it, but respond ONLY to the <current_question> below." >>,
            << >> >>
         \o HistoryLinesRevisit(messages, 1)
         \o << << "</conversation_history>" >>, << >> >>,
         NL)

buildConversationHistory(messages) ==
    IF \E j \in 1..Len(messages) :
           messages[j].role # "system" /\ messages[j].noContent
    THEN HistoryLines(messages, 1)
    ELSE
    Join(<< << "<conversation_history>" >>,
            << "This is the previous conversation for context. You should be aware of it, but respond ONLY to the <current_question> below." >>,
            << >> >>
         \o HistoryLines(messages, 1)
         \o << << "</conversation_history>" >>, << >> >>,
         NL)

BlocksOfType(blocks, t) == SelectSeq(blocks, LAMBDA b : b.type = t)

\* the summary line pushed for one tool_result of the current message
CurrentToolResultLine(result) ==
    << "[Tool result for ", result.tool_use_id, "]: " >>
    \o Take(IF result.contentKind = "string" THEN result.text
            ELSE JsonStringifyArray(result.items),
            ToolResultPreview)

CurrentToolUseLine(tool) ==
    << "[Previously used tool: ", tool.name, " with id=", tool.id, "]" >>

\* the image block pushed for one image of the current message
CurrentImageBlock(img) ==
    [type |-> "image",
     source |-> [type |-> img.source.type,
                 media_type |-> IF img.source.media_type \in {Undefined, ""}
                                THEN "image/jpeg" ELSE img.source.media_type,
                 data |-> IF img.source.type = "base64" THEN img.source.data
                          ELSE Undefined,
                 url |-> IF img.source.type = "url" THEN img.source.url
                         ELSE Undefined]]

CurrentQuestionBlock(t) ==
    << "<current_question>", NL >> \o t \o << NL, "</current_question>" >>

\* (for (const block of msg.content) throws when there is no content)
processCurrentMessage(msg) ==
    IF msg.noContent THEN ThrowsTypeError(<< "msg.content is not iterable" >>)
    ELSE IF msg.isString
    THEN << TextBlock(CurrentQuestionBlock(msg.text)) >>
    ELSE LET textParts == BlocksOfType(msg.blocks, "text")
             images == BlocksOfType(msg.blocks, "image")
             toolUses == BlocksOfType(msg.blocks, "tool_use")
             toolResults == BlocksOfType(msg.blocks, "tool_result")
             currentQuestionParts ==
                 (IF Len(textParts) > 0
                  THEN << Join([i \in 1..Len(textParts) |-> textParts[i].text], NL) >>
                  ELSE << >>)
                 \o [i \in 1..Len(toolUses) |-> CurrentToolUseLine(toolUses[i])]
                 \o [i \in 1..Len(toolResults) |-> CurrentToolResultLine(toolResults[i])]
         IN (IF Len(currentQuestionParts) > 0
             THEN << TextBlock(CurrentQuestionBlock(Join(currentQuestionParts, NL))) >>
             ELSE << >>)
            \o [i \in 1..Len(images) |-> CurrentImageBlock(images[i])]

\* What draining the async generator gives: it threw, or the items it yielded.
FlatThrow(message) == [threw |-> TRUE, error |-> message, items |-> << >>]
FlatItems(items) == [threw |-> FALSE, error |-> << >>, items |-> items]

SDKUserMessage(contentBlocks, sessionId) ==
    [type |-> "user", session_id |-> sessionId, parent_tool_use_id |-> "null",
     message |-> [role |-> "user", isString |-> FALSE, text |-> << >>,
                  blocks |-> contentBlocks]]

\* an input channel that replays the turns one item each
messagesToStreamingInputPerTurn(messages, sessionId) ==
    FlatItems([i \in 1..Len(messages) |->
                   SDKUserMessage(processCurrentMessage(messages[i]), sessionId)])

messagesToStreamingInput(messages, sessionId) ==
    IF Len(messages) = 0 THEN FlatItems(<< >>)
    ELSE LET history == SubSeq(messages, 1, Len(messages) - 1)
             current == messages[Len(messages)]
         IN IF current.role # "user"
            THEN FlatThrow(<< "last message must be user" >>)
            ELSE IF \E j \in 1..Len(history) :
                        history[j].role # "system" /\ history[j].noContent
            THEN FlatThrow(buildConversationHistory(history).message)
            ELSE IF current.noContent
            THEN FlatThrow(processCurrentMessage(current).message)
            ELSE FlatItems(<< SDKUserMessage(
                     (IF Len(history) > 0
                      THEN << TextBlock(buildConversationHistory(history)) >>
                      ELSE << >>)
                     \o processCurrentMessage(current),
                     sessionId) >>)

-----------------------------------------------------------------------------
(* HistoryReplayConverter, src/unnamed/part_000 *)

\* the value the map callback of extractTextContent returns for one block
BunRenderBlock(block) ==
    CASE block.type = "text" -> block.text
      [] block.type = "tool_use" ->
            << "[Used tool: ", block.name, " with id=", block.id, "]" >>
      [] block.type = "tool_result" ->
            << "[Tool result for ", block.tool_use_id, "]: " >>
            \o Take(IF block.contentKind = "string" THEN block.text
                    ELSE JsonStringifyArray(block.items),
                    ToolResultPreview)
      [] block.type = "image" -> << "[Image attached]" >>
      [] block.type = "thinking" ->
            << "[Thinking: " >> \o Take(block.thinking, ThinkingPreview) \o << "...]" >>
      [] OTHER -> << >>

\* (msg.content.map throws when there is no content)
bunExtractTextContent(msg) ==
    IF msg.noContent
    THEN ThrowsTypeError(
             << "Cannot read properties of undefined (reading 'map')" >>)
    ELSE IF msg.isString THEN msg.text
    ELSE Join(SelectSeq([i \in 1..Len(msg.blocks) |-> BunRenderBlock(msg.blocks[i])],
                        LAMBDA r : r # << >>),
              NL)

\* the for-of loop without its `continue` for system turns
BunHistorySpanKeepsSystem(msg) ==
    LET tag == IF msg.role = "user" THEN "user" ELSE "assistant"
    IN << << IF tag = "user" THEN "<user>" ELSE "<assistant>" >>,
          escapeXml(bunExtractTextContent(msg)),
          << IF tag = "user" THEN "</user>" ELSE "</assistant>" >> >>

\* the three parts pushed for one history turn by the for-of loop
BunHistorySpan(msg) ==
    IF msg.role = "system" THEN << >>
    ELSE IF msg.noContent THEN bunExtractTextContent(msg)
    ELSE LET tag == IF msg.role = "user" THEN "user" ELSE "assistant"
         IN << << IF tag = "user" THEN "<user>" ELSE "<assistant>" >>,
               escapeXml(bunExtractTextContent(msg)),
               << IF tag = "user" THEN "</user>" ELSE "</assistant>" >> >>

RECURSIVE BunHistoryParts(_)
BunHistoryParts(history) ==
    IF history = << >> THEN << >>
    ELSE IF \E j \in 1..Len(history) :
                history[j].role # "system" /\ history[j].noContent
    THEN ThrowsTypeError(
             << "Cannot read properties of undefined (reading 'map')" >>)
    ELSE BunHistorySpan(Head(history)) \o BunHistoryParts(Tail(history))

convertMessagesToPrompt(messages) ==
    IF Len(messages) = 0 THEN FlatThrow(<< "Messages array cannot be empty" >>)
    ELSE LET history == SubSeq(messages, 1, Len(messages) - 1)
             current == messages[Len(messages)]
         IN IF current.role # "user"
            THEN FlatThrow(<< "The last message must be from user role" >>)
            ELSE IF \E j \in 1..Len(history) :
                        history[j].role # "system" /\ history[j].noContent
            THEN FlatThrow(BunHistoryParts(history).message)
            ELSE IF current.noContent
            THEN FlatThrow(bunExtractTextContent(current).message)
            ELSE FlatItems(<<
                   Join((IF Len(history) > 0
                         THEN << << "<conversation_history>" >>,
                                 << "This is the previous conversation for context. You should be aware of it," >>,
                                 << "but respond ONLY to the <current_question> below." >>,
                                 << >> >>
                              \o BunHistoryParts(history)
                              \o << << "</conversation_history>" >>, << >> >>
                         ELSE << >>)
                        \o << << "<current_question>" >>,
                              bunExtractTextContent(current),
                              << "</current_question>" >> >>,
                        NL) >>)

-----------------------------------------------------------------------------
(* Inputs of the Flattener *)

SessionId == "msg_1"   \* the request identifier, supplied by the caller

Roles == {"user", "assistant", "system"}

AMember == [key |-> "k", value |-> "1"]

SegmentPool ==
    { TextBlock(<< "a" >>),
      TextBlock(<< "<", "b" >>),
      ImageBlock("base64", "image/png", "DATA", Undefined),
      ImageBlock("url", Undefined, Undefined, "URL"),
      ToolUseBlock("t1", "Bash", TRUE, << AMember >>),
      ToolResultString("t1", << "o", "k" >>),
      ToolResultArray("t1", << << AMember >> >>),
      ThinkingBlock(<< "h" >>),
      UnknownBlock }

\* (one last turn holds an image that comes with media_type: '', one has no
\* content)
CurrentTurns ==
    { StringTurn("user", t) : t \in { << >>, << "H", "i" >>, << "<", "&" >> } }
    \cup { BlocksTurn("user", bs) : bs \in SeqsUpTo(SegmentPool, MaxBlocks) }
    \cup { StringTurn(r, << "a" >>) : r \in {"assistant", "system"} }
    \cup { BlocksTurn("user", << ImageBlock("base64", "", "DATA", Undefined) >>),
           ContentlessTurn("user") }

\* a turn text with the five characters escapeXml replaces
SpecialText == << "<", "a", ">", "&", "\"", "'" >>

HistoryTurns ==
    { StringTurn(r, SpecialText) : r \in Roles }
    \cup { BlocksTurn(r, << TextBlock(<< "a" >>), UnknownBlock,
                           ImageBlock("base64", "image/png", "DATA", Undefined) >>)
           : r \in Roles }

TurnLists ==
    { << >> } \cup { h \o << c >> : h \in SeqsUpTo(HistoryTurns, MaxHistory),
                                   c \in CurrentTurns }

NotRun == [threw |-> FALSE, error |-> << >>, items |-> << >>]

\* the Flattener of the running variant
Flatten(v, messages) ==
    IF v = "express" THEN messagesToStreamingInput(messages, SessionId)
    ELSE convertMessagesToPrompt(messages)

\* the textual projection the running variant renders a turn with
extractTextContent(v, msg) ==
    IF v = "express" THEN expressExtractTextContent(msg)
    ELSE bunExtractTextContent(msg)

\* the text contents of the one turn the engine receives, in order
OutputTexts(v, item) ==
    IF v = "express"
    THEN LET ts == BlocksOfType(item.message.blocks, "text")
         IN [i \in 1..Len(ts) |-> ts[i].text]
    ELSE << item >>

-----------------------------------------------------------------------------
(* SDK messages: what iterating query() yields *)

StreamEvent(ev) == [type |-> "stream_event", event |-> ev]

\* the identifier the engine gives its own message; its message_start
\* names the model it was asked for
EngineMessageId == "msg_engine"

MessageStartEv ==
    [type |-> "message_start",
     message |-> [id |-> EngineMessageId, type |-> "message",
                  role |-> "assistant", content |-> << >>, model |-> "claude",
                  usage |-> [input_tokens |-> 12, output_tokens |-> 0]]]
BlockStartEv(i) ==
    [type |-> "content_block_start", index |-> i,
     content_block |-> [type |-> "text", text |-> << >>]]
BlockDeltaEv(i) ==
    [type |-> "content_block_delta", index |-> i,
     delta |-> [type |-> "text_delta", text |-> << "x" >>]]
BlockStopEv(i) == [type |-> "content_block_stop", index |-> i]
MessageDeltaEv ==
    [type |-> "message_delta", delta |-> [stop_reason |-> "end_turn"],
     usage |-> [output_tokens |-> 5]]
MessageStopEv == [type |-> "message_stop"]

UsageOf(inTok, outTok) ==
    [present |-> TRUE, input_tokens |-> inTok, output_tokens |-> outTok]
NoUsage == [present |-> FALSE, input_tokens |-> 0, output_tokens |-> 0]
\* the value of a counter the usage object does not carry (undefined)
AbsentCounter == 0 - 1

AssistantMsg(content) == [type |-> "assistant", message |-> [content |-> content]]
ResultMsg(subtype, isError, usage) ==
    [type |-> "result", subtype |-> subtype, is_error |-> isError, usage |-> usage]
SystemMsg == [type |-> "system", subtype |-> "init"]

\* the SDK messages the engine may deliver to a request, in any order
EngineMsgs ==
    { StreamEvent(ev) : ev \in { MessageStartEv, BlockStartEv(0), BlockDeltaEv(0),
                                 BlockStopEv(0), MessageDeltaEv, MessageStopEv } }
    \cup { AssistantMsg(<< TextBlock(<< "x" >>) >>),
           ResultMsg("success", FALSE, UsageOf(12, 0)),
           SystemMsg }

\* the failures iterating the engine's stream may raise
EngineErrors == { << "engine failed" >> }
AbortErrorMessage == << "Claude Code process aborted by user" >>

-----------------------------------------------------------------------------
(* Translation of SDK messages *)

\* formatSSE / the template of res.write: event: <kind>, data: <JSON>
formatSSE(event) == [event |-> event.type, data |-> event]

\* err?.message || String(err)
ExpressErrorText(message) == IF message = << >> THEN << "Error" >> ELSE message

ErrorEvent(message) ==
    [type |-> "error", error |-> [type |-> "api_error", message |-> message]]

\* server.ts, body of the streaming for-await loop: the records written
ExpressStreamWrites(sdkMsg) ==
    IF sdkMsg.type = "stream_event" THEN << formatSSE(sdkMsg.event) >> ELSE << >>

\* part_000 convertSDKMessageToEvent; << >> stands for null
convertSDKMessageToEvent(sdkMsg) ==
    CASE sdkMsg.type = "stream_event" -> << sdkMsg.event >>
      [] sdkMsg.type = "result" ->
            << [type |-> "message_delta",
                delta |-> [stop_reason |-> IF sdkMsg.is_error THEN "error"
                                           ELSE "end_turn"],
                usage |-> sdkMsg.usage] >>
      [] sdkMsg.type = "assistant" ->
            << [type |-> "assistant_message", message |-> sdkMsg.message] >>
      [] OTHER -> << >>

\* part_000, body of the streaming for-await loop: the records written
\* (if (event && event.type))
BunStreamWrites(sdkMsg) ==
    LET event == convertSDKMessageToEvent(sdkMsg)
    IN IF event # << >> /\ event[1].type \notin {Undefined, ""}
       THEN << formatSSE(event[1]) >> ELSE << >>

\* part_000, the message_start written before query() is called
BunMessageStart(requestId, model) ==
    [type |-> "message_start",
     message |-> [id |-> requestId, type |-> "message", role |-> "assistant",
                  content |-> << >>, model |-> model, stop_reason |-> "null",
                  usage |-> [input_tokens |-> 0, output_tokens |-> 0]]]

StreamWrites(v, sdkMsg) ==
    IF v = "express" THEN ExpressStreamWrites(sdkMsg) ELSE BunStreamWrites(sdkMsg)

\* what the streaming branch writes when the engine's stream ends
StreamEndWrites(v) ==
    IF v = "express" THEN << >> ELSE << formatSSE(MessageStopEv) >>

\* a catch that goes on to close the message after reporting the failure
StreamCatchWritesThenStop(v, message) ==
    << formatSSE(ErrorEvent(message)), formatSSE(MessageStopEv) >>

\* what the catch of the streaming branch writes
StreamCatchWrites(v, message) ==
    IF v = "express" THEN << formatSSE(ErrorEvent(ExpressErrorText(message))) >>
    ELSE << formatSSE(ErrorEvent(message)) >>

-----------------------------------------------------------------------------
(* Aggregation of SDK messages (non-streaming) *)

AggInit ==
    [assistantMessages |-> << >>, resultMessage |-> << >>,
     contentBlocks |-> << >>,
     usage |-> [input_tokens |-> 0, output_tokens |-> 0],
     stopReason |-> "end_turn"]

\* server.ts, body of the non-streaming for-await loop
ExpressAggStep(a, sdkMsg) ==
    IF sdkMsg.type = "assistant"
    THEN [a EXCEPT !.assistantMessages = Append(@, sdkMsg)]
    ELSE IF sdkMsg.type = "result"
    THEN [a EXCEPT !.resultMessage = << sdkMsg >>]
    ELSE a

\* MessageConverter.sdkToApiContent: one block of an assistant message
ApiContentOf(block) ==
    CASE block.type = "text" -> << [type |-> "text", text |-> block.text] >>
      [] block.type = "thinking" ->
            << [type |-> "thinking", thinking |-> block.thinking] >>
      [] block.type = "tool_use" ->
            << [type |-> "tool_use", id |-> block.id, name |-> block.name,
                input |-> block.input] >>
      [] OTHER -> << >>

RECURSIVE sdkToApiContent(_)
sdkToApiContent(contentBlocks) ==
    IF contentBlocks = << >> THEN << >>
    ELSE ApiContentOf(Head(contentBlocks)) \o sdkToApiContent(Tail(contentBlocks))

RECURSIVE AllContent(_)
AllContent(assistantMessages) ==
    IF assistantMessages = << >> THEN << >>
    ELSE (IF Head(assistantMessages).type # "assistant" THEN << >>
          ELSE sdkToApiContent(Head(assistantMessages).message.content))
         \o AllContent(Tail(assistantMessages))

\* x || 0
OrZero(x) == IF x = AbsentCounter \/ x = 0 THEN 0 ELSE x

\* MessageConverter.buildNonStreamingResponse (result.usage is present)
buildNonStreamingResponse(assistantMessages, result, model, requestId) ==
    LET allContent == AllContent(assistantMessages)
    IN [id |-> requestId, type |-> "message", role |-> "assistant",
        content |-> IF Len(allContent) = 0 THEN << [type |-> "text", text |-> << >>] >>
                    ELSE allContent,
        model |-> model,
        stop_reason |-> IF result.subtype = "error_max_turns" THEN "max_tokens"
                        ELSE IF result.is_error THEN "error" ELSE "end_turn",
        stop_sequence |-> "null",
        usage |-> [input_tokens |-> OrZero(result.usage.input_tokens),
                   output_tokens |-> OrZero(result.usage.output_tokens)]]

\* part_000, body of the non-streaming for-await loop
BunAggStep(a, sdkMsg) ==
    IF sdkMsg.type = "stream_event"
    THEN LET event == sdkMsg.event IN
         IF event.type = "content_block_start"
         THEN LET block == event.content_block IN
              CASE block.type = "text" ->
                       [a EXCEPT !.contentBlocks =
                            Append(@, [type |-> "text", text |-> << >>])]
                [] block.type = "thinking" ->
                       [a EXCEPT !.contentBlocks =
                            Append(@, [type |-> "thinking", thinking |-> << >>])]
                [] block.type = "tool_use" ->
                       [a EXCEPT !.contentBlocks =
                            Append(@, [type |-> "tool_use", id |-> block.id,
                                       name |-> block.name, input |-> block.input])]
                [] OTHER -> a
         ELSE IF event.type = "content_block_delta"
         THEN LET delta == event.delta
                  at == event.index + 1
                  known == at \in 1..Len(a.contentBlocks)
              IN IF delta.type = "text_delta" /\ known
                    /\ a.contentBlocks[at].type = "text"
                 THEN [a EXCEPT !.contentBlocks[at].text = @ \o delta.text]
                 ELSE IF delta.type = "thinking_delta" /\ known
                         /\ a.contentBlocks[at].type = "thinking"
                 THEN [a EXCEPT !.contentBlocks[at].thinking = @ \o delta.thinking]
                 ELSE a
         ELSE a
    ELSE IF sdkMsg.type = "result"
    THEN [a EXCEPT
            !.usage = IF sdkMsg.usage.present
                      THEN [input_tokens |-> OrZero(sdkMsg.usage.input_tokens),
                            output_tokens |-> OrZero(sdkMsg.usage.output_tokens)]
                      ELSE @,
            !.stopReason = IF sdkMsg.is_error THEN "error" ELSE @]
    ELSE a

AggStep(v, a, sdkMsg) ==
    IF v = "express" THEN ExpressAggStep(a, sdkMsg) ELSE BunAggStep(a, sdkMsg)

-----------------------------------------------------------------------------
(* Responses *)

NoResponse == [status |-> 0]

ExpressError(status, type, message) ==
    [status |-> status, body |-> [type |-> type, message |-> message]]

BunError(status, type, message) ==
    [status |-> status, body |-> [type |-> type, error |-> [message |-> message]]]

Ok(responseBody) == [status |-> 200, body |-> responseBody]

\* a validation that forgets the check of the last turn's role
ExpressValidateNoRoleCheck(b) ==
    IF Len(b.messages) = 0
    THEN ExpressError(400, "invalid_request_error", << "messages must not be empty" >>)
    ELSE NoResponse

\* server.ts, the two checks at the head of the try block of app.post
ExpressValidate(b) ==
    IF Len(b.messages) = 0
    THEN ExpressError(400, "invalid_request_error", << "messages must not be empty" >>)
    ELSE IF b.messages[Len(b.messages)].role # "user"
    THEN ExpressError(400, "invalid_request_error", << "last message must be user" >>)
    ELSE NoResponse

\* part_000, the three early returns of app.post before the engine is called
BunValidate(b) ==
    IF ~b.json
    THEN BunError(400, "error", << "Invalid JSON in request body" >>)
    ELSE IF Len(b.messages) = 0
    THEN BunError(400, "invalid_request_error",
                  << "messages field is required and cannot be empty" >>)
    ELSE LET prompt == convertMessagesToPrompt(b.messages)
         IN IF prompt.threw
            THEN BunError(400, "invalid_request_error", prompt.error)
            ELSE NoResponse

Validate(v, b) == IF v = "express" THEN ExpressValidate(b) ELSE BunValidate(b)

\* part_000: the handler throws outside every try: `body.messages` of the
\* body null (329), or `.filter` of the absent content of a leading system
\* turn once the checks have passed (358-361)
BunThrowsUncaught(b) ==
    /\ b.json
    /\ \/ b.isNull
       \/ /\ BunValidate(b) = NoResponse
          /\ b.system.kind = "absent"
             \/ (b.system.kind = "string" /\ b.system.text = << >>)
          /\ b.messages[1].role = "system"
          /\ b.messages[1].noContent

\* what Hono answers for an exception that leaves the handler
HonoInternalError ==
    [status |-> 500, body |-> [text |-> << "Internal Server Error" >>]]

\* server.ts: what handleNonStreamingWithHistoryReplay and the catch of
\* app.post answer when the engine's stream has ended
ExpressAggregated(a, model, requestId) ==
    IF a.resultMessage = << >>
    THEN ExpressError(500, "api_error", << "no result message received" >>)
    ELSE IF ~a.resultMessage[1].usage.present
    THEN ExpressError(500, "api_error", << "TypeError" >>)
    ELSE Ok(buildNonStreamingResponse(a.assistantMessages, a.resultMessage[1],
                                      model, requestId))

\* part_000's response with the accumulated blocks as they are
BunAggregatedNoFallback(a, model, requestId) ==
    Ok([id |-> requestId, type |-> "message", role |-> "assistant",
        content |-> a.contentBlocks,
        model |-> model,
        stop_reason |-> a.stopReason,
        usage |-> a.usage])

\* part_000: the response built after the non-streaming loop
BunAggregated(a, model, requestId) ==
    Ok([id |-> requestId, type |-> "message", role |-> "assistant",
        content |-> IF Len(a.contentBlocks) > 0 THEN a.contentBlocks
                    ELSE << [type |-> "text", text |-> << >>] >>,
        model |-> model,
        stop_reason |-> a.stopReason,
        usage |-> a.usage])

Aggregated(v, a, model, requestId) ==
    IF v = "express" THEN ExpressAggregated(a, model, requestId)
    ELSE BunAggregated(a, model, requestId)

\* the 500 answered when iterating the engine's stream throws (non-streaming)
AggregatedCatch(v, message) ==
    IF v = "express" THEN ExpressError(500, "api_error", ExpressErrorText(message))
    ELSE BunError(500, "api_error", message)

\* whether a streamed request whose engine stream threw is counted a success:
\* server.ts catches inside handleStreamingWithHistoryReplay and app.post then
\* runs successCount += 1; part_000 runs errorCount++ in its catch
StreamFailureCountsAsSuccess(v) == v = "express"

\* whether a client disconnect reaches the engine: server.ts registers
\* req.on('close') -> abortController.abort(); part_000 registers nothing
AbortsOnClose(v) == v = "express"

-----------------------------------------------------------------------------
(* The request handler app.post('/v1/messages') (specification Spec) *)

ModelName == "claude"

UserTurn == StringTurn("user", << "H", "i" >>)
AssistantTurn == StringTurn("assistant", << "H", "e", "y" >>)
SystemTurn == StringTurn("system", << "S" >>)

\* the `system` field of a request body: absent, a string, or text blocks
NoSystem == [kind |-> "absent", text |-> << >>, blocks |-> << >>]
SystemString(t) == [kind |-> "string", text |-> t, blocks |-> << >>]
SystemArray(bs) == [kind |-> "array", text |-> << >>, blocks |-> bs]

RequestTurnLists ==
    { << >>, << UserTurn >>, << AssistantTurn >>, << UserTurn, AssistantTurn >>,
      << SystemTurn >>, << SystemTurn, UserTurn, AssistantTurn, UserTurn >> }

\* the JSON body `null`
NullBody ==
    [json |-> TRUE, isNull |-> TRUE, stream |-> FALSE, messages |-> << >>,
     system |-> NoSystem]

\* a request whose leading system turn has no content: {"role": "system"}
ContentlessSystemBody ==
    [json |-> TRUE, isNull |-> FALSE, stream |-> FALSE,
     messages |-> << ContentlessTurn("system"), UserTurn >>,
     system |-> NoSystem]

\* express.json() answers a malformed body itself, `null` included (strict
\* mode): the handler of server.ts only ever runs on a parsed object
\* (the request of several turns comes with a `system` field when it is not
\* streamed, without one when it is; two requests come with `system: ''`)
RequestBodies(v) ==
    { [json |-> TRUE, isNull |-> FALSE, stream |-> s, messages |-> ms,
       system |-> IF ~s /\ Len(ms) > 1 /\ ms[Len(ms)].role = "user"
                  THEN SystemString(<< "T" >>) ELSE NoSystem] :
          s \in BOOLEAN, ms \in RequestTurnLists }
    \cup { [json |-> TRUE, isNull |-> FALSE, stream |-> FALSE, messages |-> ms,
             system |-> SystemString(<< >>)] :
               ms \in { << UserTurn >>,
                        << SystemTurn, UserTurn, AssistantTurn, UserTurn >> } }
    \cup (IF v = "bun"
          THEN { [json |-> FALSE, isNull |-> FALSE, stream |-> FALSE,
                  messages |-> << >>, system |-> NoSystem],
                 NullBody, ContentlessSystemBody,
                 [json |-> TRUE, isNull |-> FALSE, stream |-> FALSE,
                  messages |-> << ContentlessTurn("user") >>,
                  system |-> NoSystem] }
          ELSE { })

\* the systemPrompt option: undefined, or a string (the empty one included)
NoOptions ==
    [systemPrompt |-> [present |-> FALSE, kind |-> "undefined",
                       text |-> << >>, blocks |-> << >>]]
OptionsWith(t) ==
    [systemPrompt |-> [present |-> TRUE, kind |-> "string",
                       text |-> t, blocks |-> << >>]]
\* a systemPrompt that is the array of blocks of the body, as it came
OptionsWithArray(bs) ==
    [systemPrompt |-> [present |-> TRUE, kind |-> "array",
                       text |-> << >>, blocks |-> bs]]

\* .filter(b => b.type === 'text').map(b => b.text).join('\n')
TextsJoined(blocks) ==
    LET ts == BlocksOfType(blocks, "text")
    IN Join([i \in 1..Len(ts) |-> ts[i].text], NL)

\* buildSdkOptions of server.ts, the systemPrompt option: taken from the
\* `system` field of the body only, and set only when it is a non-empty text
buildSdkOptions(reqBody) ==
    LET systemInstruction ==
            IF reqBody.system.kind = "string" THEN reqBody.system.text
            ELSE IF reqBody.system.kind = "array"
            THEN TextsJoined(reqBody.system.blocks)
            ELSE << >>
    IN IF systemInstruction # << >> THEN OptionsWith(systemInstruction)
       ELSE NoOptions

\* the sdkOptions of part_000, the systemPrompt option: body.system, replaced
\* by the content of a leading system message when it is falsy (undefined or
\* the empty string; an array is truthy); with no leading system message
\* body.system is passed as it is
BunSdkOptions(b) ==
    IF b.system.kind = "array"
    THEN OptionsWithArray(b.system.blocks)
    ELSE IF b.system.kind = "string" /\ b.system.text # << >>
    THEN OptionsWith(b.system.text)
    ELSE IF Len(b.messages) > 0 /\ b.messages[1].role = "system"
    THEN OptionsWith(IF b.messages[1].isString THEN b.messages[1].text
                     ELSE TextsJoined(b.messages[1].blocks))
    ELSE IF b.system.kind = "string"
    THEN OptionsWith(b.system.text)
    ELSE NoOptions

SdkOptions(v, b) == IF v = "express" THEN buildSdkOptions(b) ELSE BunSdkOptions(b)

\* a request that has not reached the process yet
NotArrived ==
    [pc |-> "new",
     body |-> [json |-> TRUE, isNull |-> FALSE, stream |-> FALSE, messages |-> << >>,
               system |-> NoSystem],
     consumed |-> 0, agg |-> AggInit, ended |-> FALSE,
     base |-> [success |-> 0, error |-> 0], outcome |-> "none"]

NoRequests == [r \in 1..MaxRequests |-> NotArrived]

HandlerIdle ==
    /\ requestCount = 0
    /\ successCount = 0
    /\ errorCount = 0
    /\ phase = "idle"
    /\ body = [json |-> TRUE, isNull |-> FALSE, stream |-> FALSE, messages |-> << >>,
               system |-> NoSystem]
    /\ engineCalls = 0
    /\ engineInput = NotRun
    /\ engineOptions = NoOptions
    /\ engineLog = << >>
    /\ engineOutcome = [kind |-> "none", message |-> << >>]
    /\ wire = << >>
    /\ resEnded = 0
    /\ response = [status |-> 0]
    /\ responsesSent = 0
    /\ clientClosed = FALSE
    /\ aborted = FALSE
    /\ agg = AggInit
    /\ base = [success |-> 0, error |-> 0]

Init ==
    /\ requests = << >>
    /\ variant \in Variants
    /\ flatIn = << >>
    /\ flatOut = NotRun
    /\ flatDone = FALSE
    /\ engineScript = << >>
    /\ HandlerIdle

\* query() is called for the request with body b, whose handler has called
\* it `calls` times before
CallEngine(b, calls) ==
    /\ engineCalls' = calls + 1
    /\ engineInput' = Flatten(variant, b.messages)
    /\ engineOptions' = SdkOptions(variant, b)

EngineNotCalled ==
    /\ engineCalls' = 0
    /\ engineInput' = NotRun
    /\ engineOptions' = NoOptions

\* the early return of a request turned down by the checks of its body
Reject(rejection) ==
    /\ errorCount' = errorCount + 1
    /\ response' = rejection
    /\ responsesSent' = 1
    /\ phase' = "done"

\* A request arrives and its handler runs up to its first await.  server.ts
\* gets the parsed body, checks it and calls the engine in that one run;
\* part_000 counts the request and awaits the body (await c.req.json()).
Receive(b) ==
    /\ phase \in {"idle", "done"}
    /\ requestCount < MaxRequests
    /\ requestCount' = requestCount + 1
    /\ body' = b
    /\ base' = [success |-> successCount, error |-> errorCount]
    /\ engineLog' = << >>
    /\ engineOutcome' = [kind |-> "none", message |-> << >>]
    /\ resEnded' = 0
    /\ clientClosed' = FALSE
    /\ aborted' = FALSE
    /\ agg' = AggInit
    /\ wire' = << >>
    /\ IF variant = "bun"
       THEN /\ phase' = "parsing"
            /\ errorCount' = errorCount
            /\ response' = NoResponse
            /\ responsesSent' = 0
            /\ EngineNotCalled
       ELSE IF Validate(variant, b) # NoResponse
       THEN /\ Reject(Validate(variant, b))
            /\ EngineNotCalled
       ELSE /\ errorCount' = errorCount
            /\ response' = NoResponse
            /\ responsesSent' = 0
            /\ CallEngine(b, 0)
            /\ phase' = "running"
    /\ UNCHANGED << variant, flatVars, requests, successCount, engineScript >>

\* part_000: the body has been read.  The handler checks it, builds the
\* prompt and the options, and either calls the engine (aggregated) or writes
\* its message_start and awaits that write (streamed).  An exception thrown
\* outside its try blocks leaves the handler with no counter incremented.
BodyRead ==
    /\ phase = "parsing"
    /\ IF BunThrowsUncaught(body)
       THEN /\ response' = HonoInternalError
            /\ responsesSent' = 1
            /\ phase' = "done"
            /\ UNCHANGED << errorCount, wire, engineCalls, engineInput,
                            engineOptions >>
       ELSE IF Validate(variant, body) # NoResponse
       THEN /\ Reject(Validate(variant, body))
            /\ UNCHANGED << wire, engineCalls, engineInput, engineOptions >>
       ELSE IF body.stream
       THEN /\ wire' = << formatSSE(BunMessageStart(SessionId, ModelName)) >>
            /\ phase' = "starting"
            /\ UNCHANGED << errorCount, response, responsesSent, engineCalls,
                            engineInput, engineOptions >>
       ELSE /\ CallEngine(body, engineCalls)
            /\ phase' = "running"
            /\ UNCHANGED << wire, errorCount, response, responsesSent >>
    /\ UNCHANGED << variant, flatVars, requests, requestCount, successCount,
                    body, engineScript, engineLog, engineOutcome, resEnded,
                    clientClosed, aborted, agg, base >>

\* part_000: the write of message_start is over and the engine is called
StartWritten ==
    /\ phase = "starting"
    /\ CallEngine(body, engineCalls)
    /\ phase' = "running"
    /\ UNCHANGED << variant, flatVars, requests, requestCount, successCount,
                    errorCount, body, engineScript, engineLog, engineOutcome,
                    wire, resEnded, response, responsesSent, clientClosed,
                    aborted, agg, base >>

\* The engine delivers its next SDK message and the loop body handles it.
Consume(sdkMsg) ==
    /\ phase = "running"
    /\ engineLog' = Append(engineLog, sdkMsg)
    /\ IF body.stream
       THEN /\ wire' = wire \o StreamWrites(variant, sdkMsg)
            /\ agg' = agg
       ELSE /\ wire' = wire
            /\ agg' = AggStep(variant, agg, sdkMsg)
    /\ UNCHANGED << variant, flatVars, requests, requestCount, successCount, errorCount,
                    phase, body, engineCalls, engineInput, engineOptions,
                    engineScript, engineOutcome,
                    resEnded, response, responsesSent, clientClosed, aborted,
                    base >>

EngineYield(sdkMsg) ==
    /\ Len(engineLog) < MaxEngineMsgs
    /\ Consume(sdkMsg)

\* The engine's stream ends and the handler runs to its next await.
\*   server.ts, streamed: res.end(); the count waits for the return through
\*     `await handleStreamingWithHistoryReplay`.
\*   server.ts, aggregated: res.json(response) and the same return; without a
\*     result (or without its usage) the throw is caught and counted at once.
\*   part_000, streamed: message_stop is written and the write awaited.
\*   part_000, aggregated: the response is built, counted and returned.
EngineEnd ==
    /\ phase = "running"
    /\ engineOutcome' = [kind |-> "ended", message |-> << >>]
    /\ IF body.stream
       THEN /\ wire' = wire \o StreamEndWrites(variant)
            /\ resEnded' = IF variant = "express" THEN resEnded + 1 ELSE resEnded
            /\ phase' = IF variant = "express" THEN "returning" ELSE "stopping"
            /\ UNCHANGED << successCount, errorCount, response, responsesSent >>
       ELSE LET answer == Aggregated(variant, agg, ModelName, SessionId) IN
            /\ response' = answer
            /\ responsesSent' = responsesSent + 1
            /\ IF answer.status # 200
               THEN /\ errorCount' = errorCount + 1
                    /\ successCount' = successCount
                    /\ phase' = "done"
               ELSE IF variant = "express"
               THEN /\ phase' = "returning"
                    /\ UNCHANGED << successCount, errorCount >>
               ELSE /\ successCount' = successCount + 1
                    /\ errorCount' = errorCount
                    /\ phase' = "done"
            /\ UNCHANGED << wire, resEnded >>
    /\ UNCHANGED << variant, flatVars, requests, requestCount, body, engineCalls,
                    engineInput, engineOptions, engineScript, engineLog,
                    clientClosed, aborted, agg, base >>

\* a catch of the streaming branch of server.ts that reports the failure and
\* leaves the response open
ThrownLeavesOpen(kind, message) ==
    /\ phase = "running"
    /\ engineOutcome' = [kind |-> kind, message |-> message]
    /\ IF body.stream
       THEN /\ wire' = wire \o StreamCatchWrites(variant, message)
            /\ IF variant = "express"
               THEN /\ phase' = "returning"
                    /\ UNCHANGED << resEnded, errorCount >>
               ELSE /\ errorCount' = errorCount + 1
                    /\ phase' = "closing"
                    /\ UNCHANGED resEnded
            /\ UNCHANGED << successCount, response, responsesSent >>
       ELSE /\ response' = AggregatedCatch(variant, message)
            /\ responsesSent' = responsesSent + 1
            /\ errorCount' = errorCount + 1
            /\ phase' = "done"
            /\ UNCHANGED << wire, resEnded, successCount >>
    /\ UNCHANGED << variant, flatVars, requests, requestCount, body, engineCalls,
                    engineInput, engineOptions, engineScript, engineLog,
                    clientClosed, aborted, agg, base >>

\* a catch that calls the engine again instead of reporting the failure
ThrownRetries(kind, message) ==
    /\ phase = "running"
    /\ CallEngine(body, engineCalls)
    /\ UNCHANGED << variant, flatVars, requests, requestCount, successCount,
                    errorCount, phase, body, engineScript, engineLog,
                    engineOutcome, wire, resEnded, response, responsesSent,
                    clientClosed, aborted, agg, base >>

\* Iterating the engine's stream throws and the catch runs to its next await.
\*   server.ts, streamed: the error event is written and the response ended
\*     inside handleStreamingWithHistoryReplay, which then returns normally.
\*   part_000, streamed: errorCount++, the error event is written and the
\*     write awaited.
\*   aggregated: the failure is counted and answered with 500.
Thrown(kind, message) ==
    /\ phase = "running"
    /\ engineOutcome' = [kind |-> kind, message |-> message]
    /\ IF body.stream
       THEN /\ wire' = wire \o StreamCatchWrites(variant, message)
            /\ IF variant = "express"
               THEN /\ resEnded' = resEnded + 1
                    /\ phase' = "returning"
                    /\ errorCount' = errorCount
               ELSE /\ errorCount' = errorCount + 1
                    /\ phase' = "closing"
                    /\ resEnded' = resEnded
            /\ UNCHANGED << successCount, response, responsesSent >>
       ELSE /\ response' = AggregatedCatch(variant, message)
            /\ responsesSent' = responsesSent + 1
            /\ errorCount' = errorCount + 1
            /\ phase' = "done"
            /\ UNCHANGED << wire, resEnded, successCount >>
    /\ UNCHANGED << variant, flatVars, requests, requestCount, body, engineCalls,
                    engineInput, engineOptions, engineScript, engineLog,
                    clientClosed, aborted, agg, base >>

EngineThrow(message) == Thrown("threw", message)

\* The engine answers the abort signal: iterating its stream throws AbortError.
EngineAborted ==
    /\ aborted
    /\ Thrown("aborted", AbortErrorMessage)

\* The handler resumes after an await that follows the engine's stream.
\*   returning (server.ts): the handle* call has returned: successCount += 1,
\*     and the handler is over.
\*   stopping (part_000): message_stop is written: successCount++, and the
\*     stream callback is over; the response is still open.
\*   closing (part_000): the stream callback is over, after message_stop or
\*     after the error event, and Hono's stream() closes the response.
HandlerFinishes ==
    /\ phase \in {"returning", "stopping", "closing"}
    /\ phase' = IF phase = "stopping" THEN "closing" ELSE "done"
    /\ successCount' = IF phase \in {"returning", "stopping"}
                       THEN successCount + 1 ELSE successCount
    /\ resEnded' = IF phase = "closing" THEN resEnded + 1 ELSE resEnded
    /\ UNCHANGED << variant, flatVars, requests, requestCount, errorCount,
                    body, engineCalls, engineInput, engineOptions,
                    engineScript, engineLog, engineOutcome, wire, response,
                    responsesSent, clientClosed, aborted, agg, base >>

\* The client of a streamed request closes its connection, while the
\* response is streamed or after it.  The listener of server.ts (648-651) is
\* registered when handleStreamingWithHistoryReplay is entered and never
\* removed: it calls abort() whenever the close comes.
ClientClose ==
    /\ phase # "idle"
    /\ body.stream
    /\ ~clientClosed
    /\ clientClosed' = TRUE
    /\ aborted' = (AbortsOnClose(variant) /\ engineCalls > 0)
    /\ UNCHANGED << variant, flatVars, requests, requestCount, successCount, errorCount,
                    phase, body, engineCalls, engineInput, engineOptions,
                    engineScript, engineLog,
                    engineOutcome, wire, resEnded, response, responsesSent,
                    agg, base >>

Next ==
    \/ \E b \in RequestBodies(variant) : Receive(b)
    \/ BodyRead
    \/ StartWritten
    \/ \E sdkMsg \in EngineMsgs : EngineYield(sdkMsg)
    \/ EngineEnd
    \/ \E message \in EngineErrors : EngineThrow(message)
    \/ EngineAborted
    \/ HandlerFinishes
    \/ ClientClose

Spec == Init /\ [][Next]_vars

-----------------------------------------------------------------------------
(* The Flattener applied to a turn list on its own (specification FlatSpec) *)

FlatInit ==
    /\ requests = << >>
    /\ variant \in Variants
    /\ flatIn \in TurnLists
    /\ flatOut = NotRun
    /\ flatDone = FALSE
    /\ engineScript = << >>
    /\ HandlerIdle

RunFlattener ==
    /\ ~flatDone
    /\ flatOut' = Flatten(variant, flatIn)
    /\ flatDone' = TRUE
    /\ UNCHANGED << variant, flatIn >>
    /\ UNCHANGED handlerVars

FlatNext == RunFlattener

FlatSpec == FlatInit /\ [][FlatNext]_vars

-----------------------------------------------------------------------------
(* The Flattener applied to every history of up to MaxHistory turns before *)
(* one plain current turn (specification HistSpec)                         *)

HistoryPool ==
    HistoryTurns
    \cup { BlocksTurn(r, << ToolUseBlock("t1", "Bash", TRUE, << AMember >>),
                           ToolResultArray("t1", << << AMember >> >>) >>)
           : r \in Roles }

HistTurnLists ==
    { h \o << StringTurn("user", << "H", "i" >>) >>
      : h \in SeqsUpTo(HistoryPool, MaxHistory) }

HistInit ==
    /\ requests = << >>
    /\ variant \in Variants
    /\ flatIn \in HistTurnLists
    /\ flatOut = NotRun
    /\ flatDone = FALSE
    /\ engineScript = << >>
    /\ HandlerIdle

HistSpec == HistInit /\ [][FlatNext]_vars

-----------------------------------------------------------------------------
(* The Flattener applied to one history text over the characters of the    *)
(* named escapes (specification EscSpec)                                    *)

EscAlphabet == {"&", "<", ">", "\"", "'", "l", "t", ";"}

EscTurnLists ==
    { << StringTurn("user", t), StringTurn("user", << "H", "i" >>) >>
      : t \in SeqsUpTo(EscAlphabet, MaxEscLen) }

EscInit ==
    /\ requests = << >>
    /\ variant \in Variants
    /\ flatIn \in EscTurnLists
    /\ flatOut = NotRun
    /\ flatDone = FALSE
    /\ engineScript = << >>
    /\ HandlerIdle

EscSpec == EscInit /\ [][FlatNext]_vars

-----------------------------------------------------------------------------
(* The Flattener applied to a turn with tool results, as the history turn   *)
(* or as the current turn (specification ToolSpec)                          *)

\* a text of n characters
TextOfLen(n) == [i \in 1..n |-> "z"]

\* an array whose serialization is longer than the preview
LongArray == [i \in 1..(ToolResultPreview \div 8 + 1) |-> << AMember >>]

ToolSegmentPool ==
    { ToolResultString("t1", << "o", "k" >>),
      ToolResultString("t2", TextOfLen(ToolResultPreview)),
      ToolResultString("t3", TextOfLen(ToolResultPreview + 1)),
      ToolResultArray("t4", << << AMember >> >>),
      ToolResultArray("t5", LongArray),
      TextBlock(<< "a" >>) }

ToolTurnLists ==
    { << BlocksTurn("user", bs) >> : bs \in SeqsUpTo(ToolSegmentPool, MaxToolBlocks) }
    \cup { << BlocksTurn(r, bs), StringTurn("user", << "H", "i" >>) >>
           : r \in {"user", "assistant"},
             bs \in SeqsUpTo(ToolSegmentPool, MaxToolBlocks) }

ToolInit ==
    /\ requests = << >>
    /\ variant \in Variants
    /\ flatIn \in ToolTurnLists
    /\ flatOut = NotRun
    /\ flatDone = FALSE
    /\ engineScript = << >>
    /\ HandlerIdle

ToolSpec == ToolInit /\ [][FlatNext]_vars

-----------------------------------------------------------------------------
(* The Flattener applied to every history of up to MaxPairTurns user and     *)
(* assistant turns with plain-text content (specification PairSpec)          *)

PairTexts == { << "q", "<" >>, << "&", "r" >> }

PairTurns == { StringTurn(r, t) : r \in {"user", "assistant"}, t \in PairTexts }

PairTurnLists ==
    { h \o << StringTurn("user", << "H", "i" >>) >>
      : h \in SeqsUpTo(PairTurns, MaxPairTurns) }

PairInit ==
    /\ requests = << >>
    /\ variant \in Variants
    /\ flatIn \in PairTurnLists
    /\ flatOut = NotRun
    /\ flatDone = FALSE
    /\ engineScript = << >>
    /\ HandlerIdle

PairSpec == PairInit /\ [][FlatNext]_vars

-----------------------------------------------------------------------------
(* A non-streaming request answered from a whole engine run (specification  *)
(* AggregateSpec): the engine delivers, message by message, the stream of   *)
(* a run of up to MaxAggTurns assistant messages and then its result.       *)

\* the contents an assistant message of the run may have
AssistantContents ==
    { << TextBlock(<< "x" >>) >>,
      << ThinkingBlock(<< "h" >>), TextBlock(<< "y" >>) >>,
      << TextBlock(<< "x" >>), ToolUseBlock("t1", "Bash", TRUE, << AMember >>) >>,
      << UnknownBlock, TextBlock(<< "x" >>) >>,
      << TextBlock(<< "y" >>), UnknownBlock >>,
      << UnknownBlock >> }

\* the stream events of the content block at index i of an assistant message
BlockEvents(i, block) ==
    CASE block.type = "text" ->
           << StreamEvent([type |-> "content_block_start", index |-> i,
                           content_block |-> [type |-> "text", text |-> << >>]]),
              StreamEvent([type |-> "content_block_delta", index |-> i,
                           delta |-> [type |-> "text_delta", text |-> block.text]]),
              StreamEvent(BlockStopEv(i)) >>
      [] block.type = "thinking" ->
           << StreamEvent([type |-> "content_block_start", index |-> i,
                           content_block |-> [type |-> "thinking", thinking |-> << >>]]),
              StreamEvent([type |-> "content_block_delta", index |-> i,
                           delta |-> [type |-> "thinking_delta",
                                      thinking |-> block.thinking]]),
              StreamEvent(BlockStopEv(i)) >>
      [] OTHER ->
           << StreamEvent([type |-> "content_block_start", index |-> i,
                           content_block |-> block]),
              StreamEvent(BlockStopEv(i)) >>

RECURSIVE ContentEvents(_, _)
ContentEvents(content, i) ==
    IF i > Len(content) THEN << >>
    ELSE BlockEvents(i - 1, content[i]) \o ContentEvents(content, i + 1)

\* what the engine delivers for one assistant message: its partial-message
\* events, block indexes counted from 0, and then the message itself
TurnStream(content) ==
    << StreamEvent(MessageStartEv) >> \o ContentEvents(content, 1)
    \o << StreamEvent(MessageDeltaEv), StreamEvent(MessageStopEv),
          AssistantMsg(content) >>

\* the terminal results a run may end with: a normal completion, the turn
\* limit reached (error-flagged or not), a failed execution, a completion
\* without usage, a completion whose usage lacks the output counter
EngineResults ==
    { ResultMsg("success", FALSE, UsageOf(12, 5)),
      ResultMsg("error_max_turns", FALSE, UsageOf(12, 5)),
      ResultMsg("error_max_turns", TRUE, UsageOf(12, 5)),
      ResultMsg("error_during_execution", TRUE, UsageOf(12, 5)),
      ResultMsg("success", FALSE, NoUsage),
      ResultMsg("success", FALSE, UsageOf(12, AbsentCounter)) }

RECURSIVE ScriptOf(_, _)
ScriptOf(contents, result) ==
    IF contents = << >> THEN << result >>
    ELSE TurnStream(Head(contents)) \o ScriptOf(Tail(contents), result)

EngineScripts ==
    { ScriptOf(cs, r) : cs \in SeqsUpTo(AssistantContents, MaxAggTurns),
                        r \in EngineResults }

AggregateBody ==
    [json |-> TRUE, isNull |-> FALSE, stream |-> FALSE, messages |-> << UserTurn >>,
     system |-> NoSystem]

AggregateInit ==
    /\ requests = << >>
    /\ variant \in Variants
    /\ flatIn = << >>
    /\ flatOut = NotRun
    /\ flatDone = FALSE
    /\ engineScript \in EngineScripts
    /\ HandlerIdle

\* the engine delivers the next message of its run
ScriptYield ==
    /\ Len(engineLog) < Len(engineScript)
    /\ Consume(engineScript[Len(engineLog) + 1])

\* the run is over: the for-await loop ends
ScriptEnd ==
    /\ engineLog = engineScript
    /\ EngineEnd

AggregateNext ==
    \/ Receive(AggregateBody)
    \/ BodyRead
    \/ HandlerFinishes
    \/ ScriptYield
    \/ ScriptEnd

AggregateSpec == AggregateInit /\ [][AggregateNext]_vars

-----------------------------------------------------------------------------
(* Concurrent requests: each handler runs from one await to the next without *)
(* interruption, and the handlers of different requests interleave at their  *)
(* awaits (specification ConcurrentSpec)                                     *)

\* counter += 1 / counter++ : the read and the write happen in the same
\* uninterrupted run of the handler, so the value incremented is the current
\* one; `atArrival` is the value the counter had when the request arrived
PlusOneOfStaleRead(current, atArrival) == atArrival + 1

PlusOne(current, atArrival) == current + 1

ConcurrentBodies(v) ==
    { b \in RequestBodies(v) : /\ b.messages \in { << >>, << UserTurn >> }
                               /\ b.system = NoSystem }

ConcurrentMsgs ==
    { AssistantMsg(<< TextBlock(<< "x" >>) >>),
      ResultMsg("success", FALSE, UsageOf(12, 0)) }

\* which outcome counter the handler increments when the engine's stream is
\* over (ended) or has thrown (~ended)
OutcomeOf(v, stream, ended, a) ==
    IF stream
    THEN IF ended \/ StreamFailureCountsAsSuccess(v) THEN "success" ELSE "error"
    ELSE IF ended /\ Aggregated(v, a, ModelName, SessionId).status = 200
    THEN "success" ELSE "error"

ConcurrentInit ==
    /\ requests = NoRequests
    /\ variant \in Variants
    /\ flatIn = << >>
    /\ flatOut = NotRun
    /\ flatDone = FALSE
    /\ engineScript = << >>
    /\ HandlerIdle

\* the await a handler is suspended at once the engine's stream is over
\* (ended) or has thrown (~ended), "none" when it finishes in the same run:
\* the return of the handle* call in server.ts, the write of message_stop or
\* of the error event in part_000
AwaitAfter(v, stream, ended, a) ==
    IF stream
    THEN IF v = "express" THEN "returning"
         ELSE IF ended THEN "stopping" ELSE "closing"
    ELSE IF v = "express" /\ ended
            /\ Aggregated(v, a, ModelName, SessionId).status = 200
    THEN "returning" ELSE "none"

\* the handler's checks of the body, up to its next await
Validated(r, b, atArrival) ==
    IF variant = "bun" /\ BunThrowsUncaught(b)
    THEN /\ errorCount' = errorCount
         /\ requests' = [requests EXCEPT ![r].pc = "done", ![r].body = b,
                                          ![r].base = atArrival]
    ELSE IF Validate(variant, b) # NoResponse
    THEN /\ errorCount' = PlusOne(errorCount, atArrival.error)
         /\ requests' = [requests EXCEPT ![r].pc = "done", ![r].body = b,
                                          ![r].base = atArrival,
                                          ![r].outcome = "error"]
    ELSE /\ errorCount' = errorCount
         /\ requests' = [requests EXCEPT
                            ![r].pc = IF variant = "bun" /\ b.stream
                                      THEN "starting" ELSE "awaiting",
                            ![r].body = b,
                            ![r].base = atArrival]

\* A request arrives.  server.ts counts it and checks its body in one run;
\* part_000 counts it and awaits the body (await c.req.json()).
Arrive(r, b) ==
    /\ requests[r].pc = "new"
    /\ requestCount' = PlusOne(requestCount, requestCount)
    /\ LET atArrival == [success |-> successCount, error |-> errorCount] IN
       IF variant = "bun"
       THEN /\ requests' = [requests EXCEPT ![r].pc = "parsing", ![r].body = b,
                                             ![r].base = atArrival]
            /\ errorCount' = errorCount
       ELSE Validated(r, b, atArrival)
    /\ UNCHANGED << variant, flatVars, successCount, oneRequestVars >>

\* part_000: the body has been read and the handler checks it
Parsed(r) ==
    /\ requests[r].pc = "parsing"
    /\ Validated(r, requests[r].body, requests[r].base)
    /\ UNCHANGED << variant, flatVars, requestCount, successCount,
                    oneRequestVars >>

\* The engine delivers an SDK message to the loop of request r.
Resume(r, sdkMsg) ==
    /\ requests[r].pc = "awaiting"
    /\ requests[r].consumed < MaxResumes
    /\ requests' = [requests EXCEPT
                       ![r].consumed = @ + 1,
                       ![r].agg = IF requests[r].body.stream THEN @
                                  ELSE AggStep(variant, @, sdkMsg)]
    /\ UNCHANGED << variant, flatVars, requestCount, successCount, errorCount,
                    oneRequestVars >>

\* part_000: the write of message_start of request r is over and the engine
\* is called
Begun(r) ==
    /\ requests[r].pc = "starting"
    /\ requests' = [requests EXCEPT ![r].pc = "awaiting"]
    /\ UNCHANGED << variant, flatVars, requestCount, successCount, errorCount,
                    oneRequestVars >>

\* The engine's stream of request r is over (ended) or throws (~ended): the
\* handler runs to its next await, or to its end when there is none.  What
\* it counts before that await is counted here: the failure of an aggregated
\* request, the success of one of part_000, the failed stream of part_000.
Finish(r, ended) ==
    /\ requests[r].pc = "awaiting"
    /\ LET outcome == OutcomeOf(variant, requests[r].body.stream, ended,
                                requests[r].agg)
           wait == AwaitAfter(variant, requests[r].body.stream, ended,
                              requests[r].agg)
       IN IF wait \in {"returning", "stopping"}
          THEN /\ requests' = [requests EXCEPT ![r].pc = wait,
                                                ![r].ended = ended]
               /\ UNCHANGED << successCount, errorCount >>
          ELSE /\ successCount' = IF outcome = "success"
                                   THEN PlusOne(successCount,
                                                requests[r].base.success)
                                   ELSE successCount
               /\ errorCount' = IF outcome = "error"
                                 THEN PlusOne(errorCount, requests[r].base.error)
                                 ELSE errorCount
               /\ requests' = [requests EXCEPT
                                  ![r].pc = IF wait = "none" THEN "done" ELSE wait,
                                  ![r].ended = ended,
                                  ![r].outcome = outcome]
    /\ UNCHANGED << variant, flatVars, requestCount, oneRequestVars >>

\* The handler of request r resumes after an await that follows the engine's
\* stream: it counts what is still to count; the stream callback of part_000
\* is over before Hono's stream() closes the response (closing).
Settle(r) ==
    /\ requests[r].pc \in {"returning", "stopping", "closing"}
    /\ LET outcome == OutcomeOf(variant, requests[r].body.stream,
                                requests[r].ended, requests[r].agg)
       IN IF requests[r].pc = "closing"
          THEN /\ requests' = [requests EXCEPT ![r].pc = "done"]
               /\ UNCHANGED << successCount, errorCount >>
          ELSE /\ successCount' = IF outcome = "success"
                                   THEN PlusOne(successCount,
                                                requests[r].base.success)
                                   ELSE successCount
               /\ errorCount' = IF outcome = "error"
                                 THEN PlusOne(errorCount, requests[r].base.error)
                                 ELSE errorCount
               /\ requests' = [requests EXCEPT
                                  ![r].pc = IF requests[r].pc = "stopping"
                                            THEN "closing" ELSE "done",
                                  ![r].outcome = outcome]
    /\ UNCHANGED << variant, flatVars, requestCount, oneRequestVars >>

ConcurrentNext ==
    \/ \E r \in 1..MaxRequests, b \in ConcurrentBodies(variant) : Arrive(r, b)
    \/ \E r \in 1..MaxRequests : Parsed(r)
    \/ \E r \in 1..MaxRequests : Begun(r)
    \/ \E r \in 1..MaxRequests, sdkMsg \in ConcurrentMsgs : Resume(r, sdkMsg)
    \/ \E r \in 1..MaxRequests, ended \in BOOLEAN : Finish(r, ended)
    \/ \E r \in 1..MaxRequests : Settle(r)

ConcurrentSpec == ConcurrentInit /\ [][ConcurrentNext]_vars

-----------------------------------------------------------------------------
(* Streamed requests whose engine stream is finite: the stream sooner or     *)
(* later ends or throws (specification StreamSpec)                           *)

StreamBody ==
    [json |-> TRUE, isNull |-> FALSE, stream |-> TRUE, messages |-> << UserTurn >>,
     system |-> NoSystem]

\* (one of the stream events comes without a type)
StreamMsgs ==
    { StreamEvent(MessageStartEv), StreamEvent(BlockDeltaEv(0)),
      StreamEvent([type |-> Undefined]),
      AssistantMsg(<< TextBlock(<< "x" >>) >>),
      ResultMsg("success", FALSE, UsageOf(12, 0)) }

\* the end of the engine's stream, one way or the other
StreamOver ==
    \/ EngineEnd
    \/ \E message \in EngineErrors : EngineThrow(message)
    \/ EngineAborted

StreamNext ==
    \/ Receive(StreamBody)
    \/ BodyRead
    \/ StartWritten
    \/ HandlerFinishes
    \/ \E sdkMsg \in StreamMsgs : EngineYield(sdkMsg)
    \/ StreamOver
    \/ ClientClose

StreamSpec ==
    Init /\ [][StreamNext]_vars /\ WF_vars(StreamOver) /\ WF_vars(HandlerFinishes)

-----------------------------------------------------------------------------
(* The request handler over every request body, the engine delivering the    *)
(* messages of StreamMsgs (specification ServeSpec)                          *)

ServeNext ==
    \/ \E b \in RequestBodies(variant) : Receive(b)
    \/ BodyRead
    \/ StartWritten
    \/ \E sdkMsg \in StreamMsgs : EngineYield(sdkMsg)
    \/ EngineEnd
    \/ \E message \in EngineErrors : EngineThrow(message)
    \/ EngineAborted
    \/ HandlerFinishes
    \/ ClientClose

ServeSpec == Init /\ [][ServeNext]_vars

-----------------------------------------------------------------------------
(* Claims about the Flattener (FlatSpec) *)

\* C2: for the empty turn list the Flattener itself fails with a validation
\* error: it does not hand back an empty or absent engine input.
C2_EmptyListFails ==
    (flatDone /\ flatIn = << >>) => flatOut.threw

\* C10: for every non-empty turn list ending in a user turn the Flattener
\* produces exactly one output turn, and the last text content of that turn
\* ends with the current-question block around the current turn's textual
\* projection (also when the current turn holds only image segments).  A turn
\* list is one whose user and assistant turns all carry a content.
C10_OneTurnEndingInCurrentQuestion ==
    (/\ flatDone
     /\ flatIn # << >>
     /\ flatIn[Len(flatIn)].role = "user"
     /\ \A j \in 1..Len(flatIn) :
            flatIn[j].role = "system" \/ ~flatIn[j].noContent) =>
        /\ ~flatOut.threw
        /\ Len(flatOut.items) = 1
        /\ LET texts == OutputTexts(variant, flatOut.items[1])
           IN /\ texts # << >>
              /\ IsSuffix(CurrentQuestionBlock(
                              extractTextContent(variant, flatIn[Len(flatIn)])),
                          texts[Len(texts)])

FlattenedOk ==
    /\ flatDone
    /\ flatIn # << >>
    /\ flatIn[Len(flatIn)].role = "user"
    /\ ~flatOut.threw
    /\ Len(flatOut.items) = 1

\* the source turns that are left when a leading system turn is dropped
DropLeadingSystem(messages) ==
    IF messages # << >> /\ messages[1].role = "system" THEN Tail(messages)
    ELSE messages

\* the kinds of the segments of the engine input, in order: for the content
\* blocks of server.ts one kind per block, for the prompt of part_000 one kind
\* per delimiter block of the text
SegmentKinds(v, item) ==
    IF v = "express"
    THEN [i \in 1..Len(item.message.blocks) |->
            LET b == item.message.blocks[i]
            IN IF b.type = "image" THEN "image"
               ELSE IF b.text # << >> /\ b.text[1] = "<conversation_history>"
               THEN "history"
               ELSE IF b.text # << >> /\ b.text[1] = "<current_question>"
               THEN "question"
               ELSE "other"]
    ELSE LET opens == SelectSeq(item, LAMBDA t : t \in {"<conversation_history>",
                                                        "<current_question>"})
         IN [i \in 1..Len(opens) |->
                IF opens[i] = "<conversation_history>" THEN "history"
                ELSE "question"]

\* C11: the content of the flattened engine input is ordered
\* [history-block?, current-question-block, image-segment*]; the history
\* block is present exactly when more than one source turn is left after a
\* leading system turn is dropped.
C11_ContentOrder ==
    FlattenedOk =>
        LET kinds == SegmentKinds(variant, flatOut.items[1])
            hasHistory == Len(DropLeadingSystem(flatIn)) > 1
            q == IF hasHistory THEN 2 ELSE 1
        IN /\ Len(kinds) >= q
           /\ hasHistory => kinds[1] = "history"
           /\ kinds[q] = "question"
           /\ \A i \in (q + 1)..Len(kinds) : kinds[i] = "image"

\* the history block of the engine input: the first content block of
\* server.ts, the prompt of part_000 up to its closing delimiter
HistoryBlockOf(v, item) ==
    IF v = "express"
    THEN IF SegmentKinds(v, item) # << >> /\ SegmentKinds(v, item)[1] = "history"
         THEN item.message.blocks[1].text ELSE << >>
    ELSE IF \E i \in 1..Len(item) : item[i] = "</conversation_history>"
         THEN SubSeq(item, 1, CHOOSE i \in 1..Len(item) :
                                  item[i] = "</conversation_history>")
         ELSE << >>

SpecialChars == {"<", ">", "&", "\"", "'"}

NamedEscape(c) ==
    CASE c = "<" -> << "&", "l", "t", ";" >>
      [] c = ">" -> << "&", "g", "t", ";" >>
      [] c = "&" -> << "&", "a", "m", "p", ";" >>
      [] c = "\"" -> << "&", "q", "u", "o", "t", ";" >>
      [] c = "'" -> << "&", "a", "p", "o", "s", ";" >>

\* the positions of text where the string e starts
Occurrences(text, e) ==
    { i \in 1..(Len(text) - Len(e) + 1) : SubSeq(text, i, i + Len(e) - 1) = e }

CountChar(text, c) == Cardinality({ i \in 1..Len(text) : text[i] = c })

RECURSIVE SumCount(_, _, _)
SumCount(v, turns, c) ==
    IF turns = << >> THEN 0
    ELSE (IF Head(turns).role = "system" THEN 0
          ELSE CountChar(extractTextContent(v, Head(turns)), c))
         + SumCount(v, Tail(turns), c)

HistoryOf(messages) == SubSeq(messages, 1, Len(messages) - 1)

\* C12 (HistSpec): the history block holds no literal < > " ' character and no & that
\* does not start a named escape; each of the five characters of the history
\* turns' texts is replaced by its named escape (as many &lt; as the texts
\* have <, and so on), so every < and > of the block is part of a delimiter
\* or role tag.
C12_HistoryEscaped ==
    (FlattenedOk /\ Len(flatIn) > 1) =>
        LET block == HistoryBlockOf(variant, flatOut.items[1])
        IN /\ block # << >>
           /\ \A i \in 1..Len(block) : block[i] \notin {"<", ">", "\"", "'"}
           /\ \A i \in 1..Len(block) :
                 block[i] = "&" =>
                     \E c \in SpecialChars : i \in Occurrences(block, NamedEscape(c))
           /\ \A c \in SpecialChars :
                 Cardinality(Occurrences(block, NamedEscape(c)))
                     = SumCount(variant, HistoryOf(flatIn), c)

C12_Witness ==
    /\ FlattenedOk
    /\ Len(flatIn) = 3
    /\ flatIn[1] = StringTurn("user", SpecialText)
    /\ flatIn[2].role = "assistant"
    /\ \A c \in SpecialChars :
          Occurrences(HistoryBlockOf(variant, flatOut.items[1]), NamedEscape(c)) # {}

\* the text between the lines `open` and `close` of a block
SpanText(block, open, close) ==
    LET i == CHOOSE k \in 1..Len(block) : block[k] = open
        j == CHOOSE k \in 1..Len(block) : block[k] = close
    IN SubSeq(block, i + 2, j - 2)

StartsWith(text, e) == Len(e) <= Len(text) /\ SubSeq(text, 1, Len(e)) = e

\* replaces every named escape by its character, left to right
RECURSIVE DecodeEscapes(_)
DecodeEscapes(text) ==
    IF text = << >> THEN << >>
    ELSE IF Head(text) = "&" /\ \E c \in SpecialChars : StartsWith(text, NamedEscape(c))
    THEN LET c == CHOOSE d \in SpecialChars : StartsWith(text, NamedEscape(d))
         IN << c >> \o DecodeEscapes(SubSeq(text, Len(NamedEscape(c)) + 1, Len(text)))
    ELSE << Head(text) >> \o DecodeEscapes(Tail(text))

\* C13 (EscSpec): escaping is round-trip safe: decoding the five named
\* escapes in the rendered text of a history turn gives the turn's text back,
\* for every text over an alphabet with the five characters and the letters
\* of an escape (a text that holds &lt; comes back as &lt;, not as <).
C13_EscapeRoundTrip ==
    (FlattenedOk /\ flatIn \in EscTurnLists) =>
        DecodeEscapes(SpanText(HistoryBlockOf(variant, flatOut.items[1]),
                               "<user>", "</user>"))
            = flatIn[1].text

C13_Witness ==
    /\ FlattenedOk
    /\ flatIn \in EscTurnLists
    /\ flatIn[1].text = << "&", "l", "t", ";" >>
    /\ SpanText(HistoryBlockOf(variant, flatOut.items[1]), "<user>", "</user>")
           = << "&", "a", "m", "p", ";", "l", "t", ";" >>

\* the role-tagged spans of a history block, in order, read off its text
RECURSIVE ParseSpans(_)
ParseSpans(block) ==
    IF block = << >> THEN << >>
    ELSE IF Head(block) \in {"<user>", "<assistant>"}
    THEN LET role == IF Head(block) = "<user>" THEN "user" ELSE "assistant"
             close == IF role = "user" THEN "</user>" ELSE "</assistant>"
         IN IF \E k \in 1..Len(block) : block[k] = close
            THEN LET j == CHOOSE k \in 1..Len(block) :
                              /\ block[k] = close
                              /\ \A m \in 1..(k - 1) : block[m] # close
                 IN << [role |-> role, text |-> SubSeq(block, 3, j - 2)] >>
                    \o ParseSpans(SubSeq(block, j + 1, Len(block)))
            ELSE << [role |-> "unclosed", text |-> Tail(block)] >>
    ELSE ParseSpans(Tail(block))

\* one span per non-system turn, in the turns' order, with the turn's role
ExpectedSpans(v, history) ==
    LET hs == SelectSeq(history, LAMBDA m : m.role # "system")
    IN [i \in 1..Len(hs) |->
           [role |-> hs[i].role, text |-> escapeXml(extractTextContent(v, hs[i]))]]

\* C14 (HistSpec): the history block holds, in the turns' original order, one span per
\* non-system history turn, tagged with that turn's own role and holding its
\* escaped projection; system turns of the history are skipped.  For every
\* role sequence (two users or two assistants in a row, assistant first).
C14_HistoryOrderAndRoles ==
    (FlattenedOk /\ Len(flatIn) > 1) =>
        ParseSpans(HistoryBlockOf(variant, flatOut.items[1]))
            = ExpectedSpans(variant, HistoryOf(flatIn))

C14_Witness ==
    /\ FlattenedOk
    /\ Len(flatIn) = 3
    /\ flatIn[1].role = "assistant"
    /\ flatIn[2].role = "system"
    /\ Len(ParseSpans(HistoryBlockOf(variant, flatOut.items[1]))) = 1
    /\ ParseSpans(HistoryBlockOf(variant, flatOut.items[1]))[1].role = "assistant"

\* the texts of the engine input that open with the current-question
\* delimiter, in order: content blocks of server.ts, the rest of the prompt
\* of part_000
QuestionTexts(v, item) ==
    IF v = "express"
    THEN SelectSeq(OutputTexts(v, item),
                   LAMBDA t : t # << >> /\ t[1] = "<current_question>")
    ELSE IF \E i \in 1..Len(item) : item[i] = "<current_question>"
         THEN << SubSeq(item, CHOOSE i \in 1..Len(item) :
                                  item[i] = "<current_question>", Len(item)) >>
         ELSE << >>

\* C15: the text wrapped in the current-question block is the current
\* turn's textual projection, the one history turns are rendered with
\* (segments in their original order, newline-joined, a tool invocation as
\* [Used tool: ...], an image as [Image attached]), and it is not escaped.
C15_CurrentQuestionIsProjection ==
    FlattenedOk =>
        QuestionTexts(variant, flatOut.items[1])
            = << CurrentQuestionBlock(
                     extractTextContent(variant, flatIn[Len(flatIn)])) >>

\* the image segments of the engine input, in order; the prompt of part_000
\* is one string and holds no segment
OutputImages(v, item) ==
    IF v = "express" THEN BlocksOfType(item.message.blocks, "image") ELSE << >>

ImageFacts(img) ==
    [kind |-> img.source.type, media_type |-> img.source.media_type,
     data |-> img.source.data, url |-> img.source.url]

\* C16: every image segment of the current turn is a segment of its own in
\* the engine input, in the original order, with the encoding kind, the
\* media type (absent stays absent) and the data or reference it came with.
C16_ImagesCarriedOver ==
    (FlattenedOk /\ ~flatIn[Len(flatIn)].isString) =>
        LET ins == BlocksOfType(flatIn[Len(flatIn)].blocks, "image")
            outs == OutputImages(variant, flatOut.items[1])
        IN /\ Len(outs) = Len(ins)
           /\ \A i \in 1..Len(ins) : ImageFacts(outs[i]) = ImageFacts(ins[i])

\* the variants of the ContentBlock union
RecognizedTypes == {"text", "thinking", "image", "tool_use", "tool_result"}

StripUnknown(blocks) == SelectSeq(blocks, LAMBDA b : b.type \in RecognizedTypes)

\* the turn list without the segments of an unrecognized variant
StripUnknownTurns(messages) ==
    [i \in 1..Len(messages) |->
        IF messages[i].isString THEN messages[i]
        ELSE [messages[i] EXCEPT !.blocks = StripUnknown(@)]]

HasUnknownSegment(messages) == StripUnknownTurns(messages) # messages

\* the accumulators after the non-streaming loop has consumed msgs
RECURSIVE AggOver(_, _, _)
AggOver(v, a, msgs) ==
    IF msgs = << >> THEN a
    ELSE AggOver(v, AggStep(v, a, Head(msgs)), Tail(msgs))

\* the contents of the assistant messages of a stream, in order
LogContents(log) ==
    LET ms == SelectSeq(log, LAMBDA m : m.type = "assistant")
    IN [i \in 1..Len(ms) |-> ms[i].message.content]

AggregatedDone ==
    /\ phase = "done"
    /\ ~body.stream
    /\ engineCalls = 1
    /\ engineOutcome.kind = "ended"
    /\ engineLog = engineScript

\* the run the engine would have delivered without the unrecognized segments
\* a non-streaming request answered with the aggregated response
AggregatedOk == AggregatedDone /\ response.status = 200

StrippedScript ==
    ScriptOf([i \in 1..Len(LogContents(engineLog)) |->
                 StripUnknown(LogContents(engineLog)[i])],
             engineLog[Len(engineLog)])

\* C18: a segment of an unrecognized variant is ignored, not rejected.  The
\* Flattener neither fails on it nor renders it: its output is the output
\* for the same turns without that segment.  The aggregated response is the
\* response to the same run without that segment.
C18_UnknownSegmentIgnored ==
    /\ flatDone => flatOut = Flatten(variant, StripUnknownTurns(flatIn))
    /\ AggregatedDone =>
          response = Aggregated(variant,
                                AggOver(variant, AggInit, StrippedScript),
                                ModelName, SessionId)

\* the lines of a text
RECURSIVE SplitLines(_)
SplitLines(text) ==
    IF \E i \in 1..Len(text) : text[i] = NL
    THEN LET i == CHOOSE k \in 1..Len(text) :
                      text[k] = NL /\ \A m \in 1..(k - 1) : text[m] # NL
         IN << SubSeq(text, 1, i - 1) >>
            \o SplitLines(SubSeq(text, i + 1, Len(text)))
    ELSE << text >>

\* the lines of a text that render a tool outcome
ToolOutcomeLines(text) ==
    SelectSeq(SplitLines(text),
              LAMBDA l : l # << >> /\ l[1] \in {"[Tool result for ", "[Tool result: "})

\* [Tool result for <id>]: <the result text, an array serialized, cut at 200>
ExpectedToolLine(b) ==
    << "[Tool result for ", b.tool_use_id, "]: " >>
    \o LET resultText == IF b.contentKind = "string" THEN b.text
                         ELSE JsonStringifyArray(b.items)
       IN IF Len(resultText) <= 200 THEN resultText
          ELSE SubSeq(resultText, 1, 200)

\* all the text the engine receives
RenderedText(v, item) == Join(OutputTexts(v, item), NL)

\* C19 (ToolSpec): in the textual projection of a turn, current or history,
\* every tool outcome is the line [Tool result for <id>]: <preview>, the
\* preview being the result text (an array first serialized) cut to at most
\* 200 characters and left whole when it has 200 or fewer (escaped, like the
\* rest of the turn, inside the history block).
C19_ToolOutcomePreview ==
    (FlattenedOk /\ flatIn \in ToolTurnLists) =>
        LET rs == BlocksOfType(flatIn[1].blocks, "tool_result")
        IN ToolOutcomeLines(RenderedText(variant, flatOut.items[1]))
             = [i \in 1..Len(rs) |->
                   IF Len(flatIn) = 1 THEN ExpectedToolLine(rs[i])
                   ELSE escapeXml(ExpectedToolLine(rs[i]))]

\* a segment of an assistant message as a segment of the response
ResponseSegment(b) ==
    CASE b.type = "text" -> [type |-> "text", text |-> b.text]
      [] b.type = "thinking" -> [type |-> "thinking", thinking |-> b.thinking]
      [] b.type = "tool_use" ->
            [type |-> "tool_use", id |-> b.id, name |-> b.name, input |-> b.input]

\* the text, thinking and tool_use segments of the assistant messages of a
\* stream, message after message, each message's segments in its order
RECURSIVE ExpectedContent(_)
ExpectedContent(contents) ==
    IF contents = << >> THEN << >>
    ELSE LET kept == SelectSeq(Head(contents),
                               LAMBDA b : b.type \in {"text", "thinking", "tool_use"})
         IN [i \in 1..Len(kept) |-> ResponseSegment(kept[i])]
            \o ExpectedContent(Tail(contents))

\* C20 (AggregateSpec): the content of the aggregated response is the
\* concatenation, in arrival order, of the text, thinking and tool_use
\* segments of every assistant message of the engine's stream, each with its
\* structure and whole payload: a later message's segments are added after
\* the earlier ones, never written over or into them.
C20_AggregatedContent ==
    (AggregatedOk /\ ExpectedContent(LogContents(engineLog)) # << >>) =>
        response.body.content = ExpectedContent(LogContents(engineLog))

\* the content segments the non-streaming loop has accumulated
Accumulated(v, a) ==
    IF v = "express" THEN AllContent(a.assistantMessages) ELSE a.contentBlocks

\* C21 (AggregateSpec): an aggregated response never has an empty content
\* list; when no content segment was accumulated its content is exactly one
\* text segment with the empty string.
C21_EmptyContentFallback ==
    AggregatedOk =>
        /\ response.body.content # << >>
        /\ Accumulated(variant, agg) = << >> =>
              response.body.content = << [type |-> "text", text |-> << >>] >>

C21_Witness ==
    /\ AggregatedOk
    /\ LogContents(engineLog) = << << UnknownBlock >> >>
    /\ Accumulated(variant, agg) = << >>
    /\ response.body.content = << [type |-> "text", text |-> << >>] >>

\* the terminal result of the scripted run
TerminalResult == engineLog[Len(engineLog)]

NormalCompletion(r) == ~r.is_error /\ r.subtype # "error_max_turns"

\* C22 (AggregateSpec): the stop reason of an aggregated response is
\* end_turn exactly when the terminal result is a normal completion; a result
\* that is error-flagged or reports max-turns-exceeded gives another stop
\* reason.
C22_StopReason ==
    AggregatedOk =>
        (response.body.stop_reason = "end_turn"
            <=> NormalCompletion(TerminalResult))

\* the counter a terminal result reports, zero when it reports none
ReportedCounter(usage, counter) ==
    IF ~usage.present \/ usage[counter] = AbsentCounter THEN 0
    ELSE usage[counter]

\* C23 (AggregateSpec): a non-streaming request whose engine run ends with a
\* result succeeds, and the usage counters of its response are those of the
\* terminal result, a counter the result does not carry being reported as
\* zero.
C23_UsageFromResult ==
    AggregatedDone =>
        /\ response.status = 200
        /\ response.body.usage.input_tokens =
              ReportedCounter(TerminalResult.usage, "input_tokens")
        /\ response.body.usage.output_tokens =
              ReportedCounter(TerminalResult.usage, "output_tokens")

-----------------------------------------------------------------------------
(* Claims about the request handler (Spec) *)

WireKinds == [i \in 1..Len(wire) |-> wire[i].event]

CountKind(kinds, k) == Cardinality({ i \in 1..Len(kinds) : kinds[i] = k })

LastTurnNotUser ==
    /\ body.json
    /\ Len(body.messages) > 0
    /\ body.messages[Len(body.messages)].role # "user"

\* C1 (ServeSpec): a request whose turn list is non-empty and whose last turn is not a
\* user turn is answered with a validation error (400, invalid_request_error)
\* and the engine is never invoked for it, streaming or not.
C1_NonUserLastRejected ==
    (phase \notin {"idle", "parsing"} /\ LastTurnNotUser) =>
        /\ phase = "done"
        /\ response.status = 400
        /\ response.body.type = "invalid_request_error"
        /\ engineCalls = 0
        /\ engineInput = NotRun
        /\ engineLog = << >>
        /\ wire = << >>

C1_Witness ==
    /\ phase = "done"
    /\ LastTurnNotUser
    /\ body.stream
    /\ Len(body.messages) = 2
    /\ response.status = 400
    /\ errorCount = 2

NoResultSeen == \A i \in 1..Len(engineLog) : engineLog[i].type # "result"

\* C3: aggregated mode is all-or-nothing: when the engine's stream is over
\* and no terminal result message was seen, the call fails and no response
\* object is sent as a success.
C3_AggregatedAllOrNothing ==
    (phase = "done" /\ ~body.stream /\ engineCalls = 1 /\ NoResultSeen) =>
        /\ response.status # 200
        /\ successCount = base.success

\* the recognizer of
\*   message_start (content_block_start content_block_delta* content_block_stop)*
\*   message_delta* message_stop
\* states: 0 before message_start, 1 between blocks, 2 inside a block,
\* 3 after a message_delta, 4 after message_stop, 5 no match
GrammarStep(q, kind) ==
    CASE q = 0 /\ kind = "message_start" -> 1
      [] q = 1 /\ kind = "content_block_start" -> 2
      [] q = 1 /\ kind = "message_delta" -> 3
      [] q = 1 /\ kind = "message_stop" -> 4
      [] q = 2 /\ kind = "content_block_delta" -> 2
      [] q = 2 /\ kind = "content_block_stop" -> 1
      [] q = 3 /\ kind = "message_delta" -> 3
      [] q = 3 /\ kind = "message_stop" -> 4
      [] OTHER -> 5

RECURSIVE GrammarRun(_, _)
GrammarRun(q, kinds) ==
    IF kinds = << >> THEN q
    ELSE GrammarRun(GrammarStep(q, Head(kinds)), Tail(kinds))

MatchesMessageGrammar(kinds) == GrammarRun(0, kinds) = 4

\* the engine delivered one assistant message's events in protocol order and
\* then, last, its one terminal result
EngineStreamWellFormed ==
    LET evs == SelectSeq(engineLog, LAMBDA m : m.type = "stream_event")
    IN /\ MatchesMessageGrammar([i \in 1..Len(evs) |-> evs[i].event.type])
       /\ Len(engineLog) > 0
       /\ engineLog[Len(engineLog)].type = "result"
       /\ \A i \in 1..(Len(engineLog) - 1) : engineLog[i].type # "result"

\* C4: the wire events of a streamed request that completes without failure
\* match message_start (content_block_start content_block_delta*
\* content_block_stop)* message_delta* message_stop: one message_start first,
\* one message_stop last, nothing after it, no other event kind.  Stated for
\* the engine streams that are themselves in protocol order.
C4_WireGrammar ==
    (phase = "done" /\ body.stream /\ engineOutcome.kind = "ended"
     /\ EngineStreamWellFormed) =>
        MatchesMessageGrammar(WireKinds)

StreamFailed ==
    /\ phase = "done"
    /\ body.stream
    /\ engineOutcome.kind \in {"threw", "aborted"}

\* C5 (ServeSpec): when iterating the engine's stream raises a failure, at any position
\* of the stream, exactly one wire error event is written, it carries the
\* failure's message, and it is the last record of the response: nothing
\* (no message_stop) follows it.
C5_StreamFailureOneErrorLast ==
    StreamFailed =>
        /\ Len(wire) > 0
        /\ wire[Len(wire)].event = "error"
        /\ wire[Len(wire)].data.error.message = engineOutcome.message
        /\ CountKind(WireKinds, "error") = 1

C5_Witness ==
    /\ StreamFailed
    /\ engineOutcome.kind = "threw"
    /\ Len(engineLog) = 2
    /\ Len(wire) >= 3
    /\ wire[Len(wire)].event = "error"

\* C6: a content_block_start replayed by the engine for an index that is
\* still open produces no wire event: between two content_block_start records
\* of one index the wire holds a content_block_stop of that index.
C6_NoReplayedBlockStart ==
    \A i, j \in 1..Len(wire) :
        (/\ i < j
         /\ wire[i].event = "content_block_start"
         /\ wire[j].event = "content_block_start"
         /\ wire[i].data.index = wire[j].data.index) =>
            \E k \in (i + 1)..(j - 1) :
                /\ wire[k].event = "content_block_stop"
                /\ wire[k].data.index = wire[i].data.index

\* C7: when the client closes its connection before the engine's stream has
\* ended, the in-flight engine invocation is sent a cancellation signal.
C7_CloseCancelsEngine ==
    (phase = "running" /\ body.stream /\ clientClosed) => aborted

\* C8: a cancellation that arrives while the engine's stream is iterated is a
\* clean termination: no wire error event is written because of it and the
\* request is not counted as a failure.
C8_CancellationIsClean ==
    (phase = "done" /\ body.stream /\ engineOutcome.kind = "aborted") =>
        /\ CountKind(WireKinds, "error") = 0
        /\ errorCount = base.error

RequestFailed ==
    \/ response.status \in {400, 500}
    \/ engineOutcome.kind = "threw"

RequestSucceeded ==
    /\ engineOutcome.kind = "ended"
    /\ response.status \in {0, 200}

\* C9: a request that ends in a failure (validation failure, engine failure
\* in aggregated mode, failure raised while streaming) increments the failure
\* counter and not the success counter; a request that succeeds increments
\* the success counter and not the failure counter.
C9_OutcomeCounters ==
    phase = "done" =>
        /\ RequestFailed =>
               (errorCount = base.error + 1 /\ successCount = base.success)
        /\ RequestSucceeded =>
               (successCount = base.success + 1 /\ errorCount = base.error)

\* a leading system turn in a request with no system instruction of its own
\* (no `system` field, or the empty string)
LeadingSystemTurn ==
    /\ body.json
    /\ body.system \in {NoSystem, SystemString(<< >>)}
    /\ Len(body.messages) > 1
    /\ body.messages[1].role = "system"

\* C17: a leading system turn is not rendered as a history turn: it is
\* handed to the engine as the system instruction, and the history block
\* holds exactly the turns strictly between it and the last turn.
C17_LeadingSystemExtracted ==
    (engineCalls = 1 /\ LeadingSystemTurn) =>
        /\ engineOptions
             = OptionsWith(extractTextContent(variant, body.messages[1]))
        /\ ~engineInput.threw
        /\ Len(engineInput.items) = 1
        /\ ParseSpans(HistoryBlockOf(variant, engineInput.items[1]))
             = ExpectedSpans(variant,
                             SubSeq(body.messages, 2, Len(body.messages) - 1))

\* the records the streaming loop writes for a run of SDK messages
RECURSIVE WritesOf(_, _)
WritesOf(v, log) ==
    IF log = << >> THEN << >>
    ELSE StreamWrites(v, Head(log)) \o WritesOf(v, Tail(log))

WithoutResults(log) == SelectSeq(log, LAMBDA m : m.type # "result")

\* what is on the wire before the engine is called
StreamPrefix(v) ==
    IF v = "bun" THEN << formatSSE(BunMessageStart(SessionId, ModelName)) >>
    ELSE << >>

Streaming == phase = "running" /\ body.stream

\* C24 (Spec): while a streamed request is served, the wire holds what the
\* engine's stream without its result notifications would have produced: a
\* result notification writes no wire event of its own.
C24_ResultNotOnWire ==
    Streaming =>
        wire = StreamPrefix(variant)
                   \o WritesOf(variant, WithoutResults(engineLog))

\* the output-token counter a reader of the wire ends with: the count of
\* the last message_delta that reports one (no count read yet: 0)
RECURSIVE ObservedOutputTokens(_, _)
ObservedOutputTokens(w, n) ==
    IF w = << >> THEN n
    ELSE LET e == Head(w).data
             reports == /\ e.type = "message_delta"
                        /\ "present" \in DOMAIN e.usage => e.usage.present
         IN ObservedOutputTokens(Tail(w),
                                 IF reports THEN e.usage.output_tokens ELSE n)

\* the message_delta events of the engine's stream, as wire records
EngineDeltas(log) ==
    LET deltas == SelectSeq(log, LAMBDA m : /\ m.type = "stream_event"
                                            /\ m.event.type = "message_delta")
    IN [i \in 1..Len(deltas) |-> formatSSE(deltas[i].event)]

\* C25 (Spec): while a streamed request is served, the output-token counter
\* observed on the wire is the one of the engine's last message_delta; a
\* stream whose message_delta reports 5 output tokens and whose result
\* reports 12 input and 0 output tokens ends with 5, not 0.
C25_RunningOutputTokens ==
    Streaming =>
        ObservedOutputTokens(wire, 0)
            = ObservedOutputTokens(EngineDeltas(engineLog), 0)

\* the input tokens the engine's message_start reports (none yet: 0)
EngineInputTokens(log) ==
    LET starts == SelectSeq(log, LAMBDA m : /\ m.type = "stream_event"
                                            /\ m.event.type = "message_start")
    IN IF starts = << >> THEN 0
       ELSE starts[1].event.message.usage.input_tokens

MessageStartIsOurs(m) ==
    /\ m.id = SessionId
    /\ m.model = ModelName
    /\ m.content = << >>
    /\ m.usage.output_tokens = 0

\* C26 (Spec): every message_start on the wire carries the request's
\* identifier, the request's model name, empty content, zero output tokens
\* and the input tokens of the engine's message_start when there is one.
C26_MessageStartShape ==
    \A i \in 1..Len(wire) :
        wire[i].event = "message_start" =>
            /\ MessageStartIsOurs(wire[i].data.message)
            /\ wire[i].data.message.usage.input_tokens
                  = EngineInputTokens(engineLog)

\* C27 (ServeSpec): a request invokes the engine at most once, also when the
\* engine's stream fails, and the engine's input delivers at most one item,
\* the user turn synthesized from the whole turn list.
C27_EngineInvokedOnce ==
    /\ engineCalls <= 1
    /\ engineCalls = 0 => engineInput = NotRun
    /\ Len(engineInput.items) <= 1
    /\ (variant = "express" /\ engineInput.items # << >>) =>
          /\ engineInput.items[1].type = "user"
          /\ engineInput.items[1].message.role = "user"

C27_Witness ==
    /\ phase = "done"
    /\ engineOutcome.kind = "threw"
    /\ Len(body.messages) > 1
    /\ engineCalls = 1
    /\ Len(engineInput.items) = 1

\* the request was turned down before the engine was called
ValidationFailed == phase = "done" /\ engineCalls = 0

\* a non-streaming request whose engine run did not give a response
AggregatedFailed ==
    /\ phase = "done"
    /\ ~body.stream
    /\ engineCalls = 1
    /\ engineOutcome.kind # "ended" \/ response.status # 200

\* { type, error: { type, message } }
ErrorBodyShape(b) ==
    /\ DOMAIN b = {"type", "error"}
    /\ DOMAIN b.error = {"type", "message"}

AnsweredOnceWith(status) == responsesSent = 1 /\ response.status = status

\* C28 (Spec): a request turned down by validation is answered 400, a
\* non-streaming request whose engine run fails is answered 500; either
\* way exactly one response is sent and its body is
\* { type, error: { type, message } }.
C28_ErrorResponses ==
    /\ ValidationFailed =>
          AnsweredOnceWith(400) /\ ErrorBodyShape(response.body)
    /\ AggregatedFailed =>
          AnsweredOnceWith(500) /\ ErrorBodyShape(response.body)

\* the requests that have reached the handler
Started == { r \in DOMAIN requests : requests[r].pc # "new" }

Counted(outcome) == { r \in DOMAIN requests : requests[r].outcome = outcome }

\* C29 (ConcurrentSpec): however the handlers of concurrent requests
\* interleave at their awaits, no increment of a process-wide counter is
\* lost: the total-request counter is the number of requests that have
\* started, and each outcome counter is the number of handlers that have
\* incremented it.
C29_NoLostIncrement ==
    /\ requestCount = Cardinality(Started)
    /\ successCount = Cardinality(Counted("success"))
    /\ errorCount = Cardinality(Counted("error"))

C29_Witness ==
    \E r, q \in DOMAIN requests :
        /\ requests[r].pc = "done"
        /\ requests[r].outcome = "success"
        /\ requests[q].pc = "awaiting"
        /\ requests[q].consumed > 0
        /\ requests[q].base.success = 0
        /\ successCount = 1
        /\ requestCount = Cardinality(Started)

NoneInFlight == \A r \in DOMAIN requests : requests[r].pc \in {"new", "done"}

\* C30 (ConcurrentSpec): when no request is in flight the total-request
\* counter is the sum of the two outcome counters, and every finished
\* request has incremented exactly one of them, whichever way it finished
\* (rejected, streamed or aggregated, with or without a failure).
C30_TotalIsSuccessPlusFailed ==
    NoneInFlight =>
        /\ requestCount = successCount + errorCount
        /\ \A r \in Started : requests[r].outcome \in {"success", "error"}

\* C31 (StreamSpec): the response of a streamed request whose engine stream
\* is finite, ending or throwing, is ended in the end, it is never ended a
\* second time, and once it is ended nothing more is written to it.
C31_EndedExactlyOnce ==
    /\ [](resEnded <= 1)
    /\ (phase = "running") ~> (phase = "done" /\ resEnded = 1)
    /\ [][(resEnded = 1 /\ requestCount' = requestCount)
            => (wire' = wire /\ resEnded' = 1)]_vars

C31_Witness ==
    /\ phase = "done"
    /\ body.stream
    /\ engineOutcome.kind = "threw"
    /\ Len(engineLog) > 0
    /\ resEnded = 1
    /\ wire[Len(wire)].event = "error"

OtherVariant(v) == IF v = "express" THEN "bun" ELSE "express"

\* the spans of the history block the Flattener of variant v makes of messages
SpansBy(v, messages) ==
    ParseSpans(HistoryBlockOf(v, Flatten(v, messages).items[1]))

\* C32 (PairSpec): for a history of user and assistant turns with plain
\* text the pair-lookahead loop of server.ts and the one-turn-at-a-time loop
\* of part_000 come to an end with the same role-tagged, escaped spans, one
\* per turn and in the turns' order: each turn is taken exactly once.
C32_PairLoopEquivalence ==
    (FlattenedOk /\ Len(flatIn) > 1) =>
        LET history == HistoryOf(flatIn)
            spans == ParseSpans(HistoryBlockOf(variant, flatOut.items[1]))
        IN /\ spans = SpansBy(OtherVariant(variant), flatIn)
           /\ HistoryLines(history, 1) = BunHistoryParts(history)
           /\ Len(spans) = Len(history)
           /\ \A i \in 1..Len(history) :
                 /\ spans[i].role = history[i].role
                 /\ spans[i].text = escapeXml(history[i].text)

C32_Witness ==
    /\ FlattenedOk
    /\ variant = "express"
    /\ Len(flatIn) = 5
    /\ flatIn[1].role = "user" /\ flatIn[2].role = "assistant"
    /\ flatIn[3].role = "assistant" /\ flatIn[4].role = "user"
    /\ Len(ParseSpans(HistoryBlockOf(variant, flatOut.items[1]))) = 4

=========================================================================
